---- MODULE Spec2Model ----
(***************************************************************************)
(* Model of the runtime capture pipeline of Anvil:                          *)
(*   runner/streams.py  DualStreamCapture (two capture loops, observers,    *)
(*                      ring buffers, merged timeline, queries, stop)       *)
(*   runner/monitor.py  QemuMonitor (entry observer, crash detection,       *)
(*                      run_monitored coordinator, MonitorResult)           *)
(* The emulator (QEMU) is the environment: it writes lines to its stdout    *)
(* pipe and to the CPU log file and may exit; the log file may be removed   *)
(* or truncated from outside.                                               *)
(*                                                                          *)
(* Scheduling is asyncio's: one coroutine runs at a time and is left only   *)
(* at an await.  Every action below is the code between two awaits.  The    *)
(* CPU-log loop reads with a synchronous readline(), so while it has lines  *)
(* to read (cpu_pc = "tail_active") no other coroutine is scheduled; the    *)
(* emulator, a separate process, still runs.                                *)
(*                                                                          *)
(* Abstractions: a line is (kind, id): kind says what the text is ("text",  *)
(* "blank" = empty after rstrip(), "exc" = carries an exception marker),    *)
(* id is the ordinal of the line on its channel.  Timestamps and            *)
(* runtime_ms are wall-clock values and are left out.  File offsets are     *)
(* counted in lines.                                                        *)
(***************************************************************************)
EXTENDS Integers, Sequences, FiniteSets, TLC

\* ---------------------------------------------------------------- bounds
\* lines the emulator writes during a session, stdout pipe and CPU log together
MaxLines == 2
\* deque(maxlen=...) of the per-source buffers (1000 in the source), scaled
BufCap == 1
\* entries of a source _save_logs asks for (10000 in the source), scaled
SaveLines == 2

LineKinds == {"text", "blank", "exc"}

Min(a, b) == IF a < b THEN a ELSE b
Max(a, b) == IF a > b THEN a ELSE b

VARIABLES
  \* --- DualStreamCapture fields
  serial_buffer, cpu_log_buffer, merged_timeline,
  serial_line_count, cpu_log_line_count, running, callbacks,
  \* --- the two capture coroutines
  serial_pc, cpu_pc, cpu_pos,
  \* --- environment: emulator process, its stdout pipe, the CPU log file
  proc_exited, serial_pipe, serial_written,
  cpu_file_exists, cpu_file, cpu_written,
  \* --- QemuMonitor fields and run_monitored's position
  mon_pc, crash_info, all_crashes, should_stop,
  stop_on_exception, has_handler, result, log,
  \* --- history (what observers and the crash handler have seen)
  delivered, handler_calls, detections, stop_called, tail_truncated,
  \* --- the log directory: what _save_logs has written
  saved_logs,
  \* --- ExceptionDetector fields, what the last call returned, the lines fed
  last_rip, last_regs, detected, fed,
  \* --- a call of one of the pure operations: its arguments and what it returned
  args, ret

captureVars == <<serial_buffer, cpu_log_buffer, merged_timeline,
                 serial_line_count, cpu_log_line_count, running, callbacks>>
taskVars == <<serial_pc, cpu_pc, cpu_pos>>
envVars == <<proc_exited, serial_pipe, serial_written,
             cpu_file_exists, cpu_file, cpu_written>>
monVars == <<mon_pc, crash_info, all_crashes, should_stop,
             stop_on_exception, has_handler, result, log>>
histVars == <<delivered, handler_calls, detections, stop_called,
              tail_truncated>>
diskVars == <<saved_logs>>
detectorVars == <<last_rip, last_regs, detected, fed>>
callVars == <<args, ret>>
\* the variables of the capture session, and those of the analysis operations
sessionVars == <<captureVars, taskVars, envVars, monVars, histVars, diskVars>>
analysisVars == <<detectorVars, callVars>>
vars == <<sessionVars, analysisVars>>

Observers == {"extra", "on_entry"}

\* ------------------------------------------------------- pure operations

\* Python list slicing lst[start:] with a possibly negative start
SliceFrom(lst, start) ==
  LET n == Len(lst)
      s == IF start < 0 THEN Max(start + n, 0) ELSE Min(start, n)
  IN SubSeq(lst, s + 1, n)

\* deque(maxlen=cap).append(x)
DequeAppend(dq, x, cap) ==
  IF Len(dq) >= cap THEN Append(Tail(dq), x) ELSE Append(dq, x)

get_context(lines) == SliceFrom(merged_timeline, 0 - lines)
get_serial_context(lines) == SliceFrom(serial_buffer, 0 - lines)
get_cpu_log_context(lines) == SliceFrom(cpu_log_buffer, 0 - lines)
total_lines == Len(merged_timeline)

LogEntry(src, ln, num) == [source |-> src, line |-> ln, line_number |-> num]

\* a capture loop that numbers a line without counting it
NextSerialCount_NoIncrement(c) == c

\* self._serial_line_count += 1
NextSerialCount(c) == c + 1
\* self._cpu_log_line_count += 1
NextCpuCount(c) == c + 1

\* QemuMonitor._detect_exception: does the line carry an exception marker
DetectException(entry) == entry.line.kind = "exc"

\* Optional[str] = None
None == "None"
\* an Optional number or object: no element, or the one element
Nothing == <<>>
Some(x) == <<x>>

\* ExceptionDetector.__init__; no analysis operation has been called
AnalysisInit ==
  /\ last_rip = None /\ last_regs = [CR2 |-> None, RSP |-> None]
  /\ detected = Nothing /\ fed = <<>>
  /\ args = <<>> /\ ret = <<>>

Init ==
  /\ AnalysisInit
  /\ serial_buffer = <<>> /\ cpu_log_buffer = <<>> /\ merged_timeline = <<>>
  /\ serial_line_count = 0 /\ cpu_log_line_count = 0
  /\ running = FALSE /\ callbacks = <<>>
  /\ serial_pc = "none" /\ cpu_pc = "none" /\ cpu_pos = 0
  /\ proc_exited = FALSE /\ serial_pipe = <<>> /\ serial_written = 0
  /\ cpu_file_exists = FALSE /\ cpu_file = <<>> /\ cpu_written = 0
  /\ mon_pc = "idle" /\ crash_info = <<>> /\ all_crashes = <<>>
  /\ should_stop = FALSE
  /\ stop_on_exception \in BOOLEAN /\ has_handler = TRUE
  /\ result = <<>> /\ log = {}
  /\ delivered = [o \in Observers |-> <<>>]
  /\ handler_calls = 0 /\ detections = 0 /\ stop_called = FALSE
  /\ tail_truncated = FALSE
  /\ saved_logs = <<>>


\* ------------------------------------------------------------ observers
\* An observer's view of the program while one entry is dispatched:
\*   timeline  merged_timeline with the entry appended
\*   raised    an observer raised: the for loop of _emit is left
ObsState(tl) ==
  [timeline |-> tl, delivered |-> delivered, crash_info |-> crash_info,
   all_crashes |-> all_crashes, should_stop |-> should_stop,
   handler_calls |-> handler_calls, detections |-> detections,
   raised |-> FALSE]

\* context_lines=self.capture.get_context(100)
ContextLines == 100

\* CrashInfo built by _detect_exception
CrashInfo(entry, tl) ==
  [entry |-> entry, context_lines |-> SliceFrom(tl, 0 - ContextLines)]

\* a monitor that records the first crash of a session only
RecordCrash_KeepFirst(all, crash) == IF all = <<>> THEN <<crash>> ELSE all

\* self._all_crashes.append(crash)
RecordCrash(all, crash) == Append(all, crash)

\* self.on_exception(crash), when a handler was given
CallHandler(n) == IF has_handler THEN n + 1 ELSE n

\* QemuMonitor._on_entry; hr: the on_exception handler raises
OnEntry(st, entry, hr) ==
  LET seen == [st EXCEPT !.delivered["on_entry"] = Append(@, entry)]
      crash == CrashInfo(entry, st.timeline)
      failed == has_handler /\ hr
  IN IF DetectException(entry)
     THEN [seen EXCEPT !.crash_info = <<crash>>,
                       !.all_crashes = RecordCrash(@, crash),
                       !.detections = @ + 1,
                       !.handler_calls = CallHandler(@),
                       !.should_stop = IF failed THEN @
                                       ELSE (@ \/ stop_on_exception),
                       !.raised = failed]
     ELSE seen

\* an observer registered by a client (the TUI's lambda); xr: it raises
ExtraObserver(st, entry, xr) ==
  [st EXCEPT !.delivered["extra"] = Append(@, entry), !.raised = xr]

\* for callback in self._callbacks: callback(entry)
RECURSIVE Dispatch(_, _, _, _, _)
Dispatch(cbs, entry, st, xr, hr) ==
  IF cbs = <<>> \/ st.raised THEN st
  ELSE LET st1 == IF Head(cbs) = "extra"
                  THEN ExtraObserver(st, entry, xr)
                  ELSE OnEntry(st, entry, hr)
       IN Dispatch(Tail(cbs), entry, st1, xr, hr)

\* DualStreamCapture._emit
Emit(entry, xr, hr) ==
  Dispatch(callbacks, entry, ObsState(Append(merged_timeline, entry)), xr, hr)

emitVars == <<merged_timeline, delivered, crash_info, all_crashes,
              should_stop, handler_calls, detections>>

ApplyEmit(st) ==
  /\ merged_timeline' = st.timeline
  /\ delivered' = st.delivered
  /\ crash_info' = st.crash_info
  /\ all_crashes' = st.all_crashes
  /\ should_stop' = st.should_stop
  /\ handler_calls' = st.handler_calls
  /\ detections' = st.detections

\* asyncio runs one coroutine at a time: nothing else is scheduled while the
\* CPU-log loop is between two of its synchronous readline() calls
Scheduled == cpu_pc # "tail_active"

\* positions of a capture task that is over: "done" (the loop was left by EOF or
\* by the flag), "broke" (capture_serial's `except Exception: break`), "failed"
\* (capture_cpu_log ended with an exception), "cancelled" (task.cancel())
Finished == {"done", "broke", "failed", "cancelled"}

\* ---------------------------------------------------------- environment
EmuStarted == mon_pc \in {"sleeping", "killing"} /\ ~proc_exited

EmuWriteSerial ==
  /\ EmuStarted
  /\ serial_written + cpu_written < MaxLines
  /\ \E k \in LineKinds :
       serial_pipe' = Append(serial_pipe, [kind |-> k, id |-> serial_written + 1])
  /\ serial_written' = serial_written + 1
  /\ UNCHANGED <<proc_exited, cpu_file_exists, cpu_file, cpu_written>>
  /\ UNCHANGED <<captureVars, taskVars, monVars, histVars>>
  /\ UNCHANGED diskVars
  /\ UNCHANGED analysisVars

\* the log file is removed from outside before the capture has opened it
EnvRemoveCpuLog ==
  /\ EmuStarted
  /\ cpu_file_exists
  /\ cpu_pc \in {"created", "wait_file"}
  /\ cpu_file_exists' = FALSE
  /\ cpu_file' = <<>>
  /\ UNCHANGED <<proc_exited, serial_pipe, serial_written, cpu_written>>
  /\ UNCHANGED <<captureVars, taskVars, monVars, histVars>>
  /\ UNCHANGED diskVars
  /\ UNCHANGED analysisVars

\* the emulator creates its log file again when it finds none
EmuCreateCpuLog ==
  /\ EmuStarted
  /\ ~cpu_file_exists
  /\ cpu_file_exists' = TRUE
  /\ UNCHANGED <<proc_exited, serial_pipe, serial_written, cpu_file, cpu_written>>
  /\ UNCHANGED <<captureVars, taskVars, monVars, histVars>>
  /\ UNCHANGED diskVars
  /\ UNCHANGED analysisVars

EmuWriteCpu ==
  /\ EmuStarted
  /\ cpu_file_exists
  /\ serial_written + cpu_written < MaxLines
  /\ \E k \in LineKinds :
       cpu_file' = Append(cpu_file, [kind |-> k, id |-> cpu_written + 1])
  /\ cpu_written' = cpu_written + 1
  /\ UNCHANGED <<proc_exited, serial_pipe, serial_written, cpu_file_exists>>
  /\ UNCHANGED <<captureVars, taskVars, monVars, histVars>>
  /\ UNCHANGED diskVars
  /\ UNCHANGED analysisVars

EmuTruncateCpu ==
  /\ EmuStarted
  /\ cpu_file_exists
  /\ cpu_file # <<>>
  /\ cpu_file' = <<>>
  /\ tail_truncated' = (tail_truncated \/ cpu_pc \in {"tail_sleep", "tail_active"})
  /\ UNCHANGED <<proc_exited, serial_pipe, serial_written, cpu_file_exists,
                 cpu_written>>
  /\ UNCHANGED <<delivered, handler_calls, detections, stop_called>>
  /\ UNCHANGED <<captureVars, taskVars, monVars>>
  /\ UNCHANGED diskVars
  /\ UNCHANGED analysisVars

EmuExit ==
  /\ EmuStarted
  /\ proc_exited' = TRUE
  /\ UNCHANGED <<serial_pipe, serial_written, cpu_file_exists, cpu_file,
                 cpu_written>>
  /\ UNCHANGED <<captureVars, taskVars, monVars, histVars>>
  /\ UNCHANGED diskVars
  /\ UNCHANGED analysisVars

\* ------------------------------------------------------- capture_serial
\* self._running = True; first pass of `while self._running`; await readline
SerialStart ==
  /\ serial_pc = "created"
  /\ Scheduled
  /\ running' = TRUE
  /\ serial_pc' = "reading"
  /\ UNCHANGED <<serial_buffer, cpu_log_buffer, merged_timeline,
                 serial_line_count, cpu_log_line_count, callbacks>>
  /\ UNCHANGED <<cpu_pc, cpu_pos>>
  /\ UNCHANGED <<envVars, monVars, histVars>>
  /\ UNCHANGED diskVars
  /\ UNCHANGED analysisVars

\* readline() returned a line: count, entry, buffer, _emit; an exception of an
\* observer is caught by `except Exception: break`; then `while self._running`
SerialReadLine ==
  /\ serial_pc = "reading"
  /\ Scheduled
  /\ serial_pipe # <<>>
  /\ \E xr \in BOOLEAN, hr \in BOOLEAN :
       LET num == NextSerialCount(serial_line_count)
           entry == LogEntry("serial", Head(serial_pipe), num)
           st == Emit(entry, xr, hr)
       IN /\ serial_line_count' = num
          /\ serial_buffer' = DequeAppend(serial_buffer, entry, BufCap)
          /\ ApplyEmit(st)
          /\ serial_pc' = IF st.raised THEN "broke"
                        ELSE IF running THEN "reading" ELSE "done"
  /\ serial_pipe' = Tail(serial_pipe)
  /\ UNCHANGED <<cpu_log_buffer, cpu_log_line_count, running, callbacks>>
  /\ UNCHANGED <<cpu_pc, cpu_pos>>
  /\ UNCHANGED <<proc_exited, serial_written, cpu_file_exists, cpu_file,
                 cpu_written>>
  /\ UNCHANGED <<mon_pc, stop_on_exception, has_handler, result, log>>
  /\ UNCHANGED <<stop_called, tail_truncated>>
  /\ UNCHANGED diskVars
  /\ UNCHANGED analysisVars

\* readline() returned b"" (the pipe is closed and drained): break
SerialEOF ==
  /\ serial_pc = "reading"
  /\ Scheduled
  /\ serial_pipe = <<>>
  /\ proc_exited
  /\ serial_pc' = "done"
  /\ UNCHANGED <<cpu_pc, cpu_pos>>
  /\ UNCHANGED <<captureVars, envVars, monVars, histVars>>
  /\ UNCHANGED diskVars
  /\ UNCHANGED analysisVars

\* wait_for timed out with nothing to read: continue; `while self._running`
SerialTimeout ==
  /\ serial_pc = "reading"
  /\ Scheduled
  /\ serial_pipe = <<>>
  /\ serial_pc' = IF running THEN "reading" ELSE "done"
  /\ UNCHANGED <<cpu_pc, cpu_pos>>
  /\ UNCHANGED <<captureVars, envVars, monVars, histVars>>
  /\ UNCHANGED diskVars
  /\ UNCHANGED analysisVars

\* readline() raised (an I/O error): `except Exception: break`, nothing logged
SerialReadFails ==
  /\ serial_pc = "reading"
  /\ Scheduled
  /\ serial_pc' = "broke"
  /\ UNCHANGED <<cpu_pc, cpu_pos>>
  /\ UNCHANGED <<captureVars, envVars, monVars, histVars>>
  /\ UNCHANGED diskVars
  /\ UNCHANGED analysisVars


\* ------------------------------------------------------ capture_cpu_log
\* self._running = True; `while self._running and not log_path.exists()`;
\* open, seek to the end, first readline() at the end returns "", sleep
CpuStart ==
  /\ cpu_pc = "created"
  /\ Scheduled
  /\ running' = TRUE
  /\ IF cpu_file_exists
     THEN cpu_pos' = Len(cpu_file) /\ cpu_pc' = "tail_sleep"
     ELSE cpu_pos' = cpu_pos /\ cpu_pc' = "wait_file"
  /\ UNCHANGED <<serial_buffer, cpu_log_buffer, merged_timeline,
                 serial_line_count, cpu_log_line_count, callbacks>>
  /\ UNCHANGED serial_pc
  /\ UNCHANGED <<envVars, monVars, histVars>>
  /\ UNCHANGED diskVars
  /\ UNCHANGED analysisVars

\* back from sleep(0.1): the loop condition, `if not self._running: return`,
\* or open and seek to the end
CpuPoll ==
  /\ cpu_pc = "wait_file"
  /\ Scheduled
  /\ ~running \/ cpu_file_exists
  /\ IF ~running
     THEN cpu_pos' = cpu_pos /\ cpu_pc' = "done"
     ELSE cpu_pos' = Len(cpu_file) /\ cpu_pc' = "tail_sleep"
  /\ UNCHANGED serial_pc
  /\ UNCHANGED <<captureVars, envVars, monVars, histVars>>
  /\ UNCHANGED diskVars
  /\ UNCHANGED analysisVars

\* open() raised: nothing in capture_cpu_log catches it, the task ends with it
CpuOpenFails ==
  /\ Scheduled
  /\ cpu_file_exists
  /\ \/ cpu_pc = "created" /\ running' = TRUE
     \/ cpu_pc = "wait_file" /\ running /\ running' = running
  /\ cpu_pc' = "failed"
  /\ UNCHANGED <<serial_buffer, cpu_log_buffer, merged_timeline,
                 serial_line_count, cpu_log_line_count, callbacks>>
  /\ UNCHANGED <<serial_pc, cpu_pos>>
  /\ UNCHANGED <<envVars, monVars, histVars>>
  /\ UNCHANGED diskVars
  /\ UNCHANGED analysisVars

\* back from sleep(0.05): continue; `while self._running` holds; the loop is at
\* its readline()
CpuWake ==
  /\ cpu_pc = "tail_sleep"
  /\ Scheduled
  /\ running
  /\ cpu_pc' = "tail_active"
  /\ UNCHANGED <<serial_pc, cpu_pos>>
  /\ UNCHANGED <<captureVars, envVars, monVars, histVars>>
  /\ UNCHANGED diskVars
  /\ UNCHANGED analysisVars

\* back from sleep(0.05): `while self._running` is false, the loop and the
\* task end
CpuStopped ==
  /\ cpu_pc = "tail_sleep"
  /\ Scheduled
  /\ ~running
  /\ cpu_pc' = "done"
  /\ UNCHANGED <<serial_pc, cpu_pos>>
  /\ UNCHANGED <<captureVars, envVars, monVars, histVars>>
  /\ UNCHANGED diskVars
  /\ UNCHANGED analysisVars

\* readline() returned a line: count it; a line blank after rstrip() is
\* skipped; otherwise entry, buffer, _emit (an observer's exception ends the
\* task); `while self._running`, and the loop goes on without an await
CpuReadLine ==
  /\ cpu_pc = "tail_active"
  /\ cpu_pos < Len(cpu_file)
  /\ cpu_pos' = cpu_pos + 1
  /\ LET line == cpu_file[cpu_pos + 1]
         num == NextCpuCount(cpu_log_line_count)
         entry == LogEntry("cpu_log", line, num)
     IN /\ cpu_log_line_count' = num
        /\ IF line.kind = "blank"
           THEN /\ UNCHANGED <<cpu_log_buffer, emitVars>>
                /\ cpu_pc' = IF running THEN "tail_active" ELSE "done"
           ELSE \E xr \in BOOLEAN, hr \in BOOLEAN :
                  LET st == Emit(entry, xr, hr)
                  IN /\ cpu_log_buffer' = DequeAppend(cpu_log_buffer, entry, BufCap)
                     /\ ApplyEmit(st)
                     /\ cpu_pc' = IF st.raised THEN "failed"
                                  ELSE IF running THEN "tail_active" ELSE "done"
  /\ UNCHANGED <<serial_buffer, serial_line_count, running, callbacks>>
  /\ UNCHANGED serial_pc
  /\ UNCHANGED <<mon_pc, stop_on_exception, has_handler, result, log>>
  /\ UNCHANGED <<stop_called, tail_truncated>>
  /\ UNCHANGED envVars
  /\ UNCHANGED diskVars
  /\ UNCHANGED analysisVars

\* readline() returned "" (nothing at the read position): sleep(0.05)
CpuReadEOF ==
  /\ cpu_pc = "tail_active"
  /\ cpu_pos >= Len(cpu_file)
  /\ cpu_pc' = "tail_sleep"
  /\ UNCHANGED <<serial_pc, cpu_pos>>
  /\ UNCHANGED <<captureVars, envVars, monVars, histVars>>
  /\ UNCHANGED diskVars
  /\ UNCHANGED analysisVars

\* readline() raised (an I/O error): the task ends with the exception
CpuReadFails ==
  /\ cpu_pc = "tail_active"
  /\ cpu_pc' = "failed"
  /\ UNCHANGED <<serial_pc, cpu_pos>>
  /\ UNCHANGED <<captureVars, envVars, monVars, histVars>>
  /\ UNCHANGED diskVars
  /\ UNCHANGED analysisVars

\* --------------------------------------------------------------- clients
\* DualStreamCapture.stop, called by a client while the session runs
ClientStop ==
  /\ mon_pc \in {"sleeping", "killing"}
  /\ Scheduled
  /\ running' = FALSE
  /\ stop_called' = TRUE
  /\ UNCHANGED <<serial_buffer, cpu_log_buffer, merged_timeline,
                 serial_line_count, cpu_log_line_count, callbacks>>
  /\ UNCHANGED <<delivered, handler_calls, detections, tail_truncated>>
  /\ UNCHANGED <<taskVars, envVars, monVars>>
  /\ UNCHANGED diskVars
  /\ UNCHANGED analysisVars

\* DualStreamCapture.add_callback, called by a client before the run
ClientAddCallback ==
  /\ mon_pc = "idle"
  /\ callbacks = <<>>
  /\ callbacks' = Append(callbacks, "extra")
  /\ UNCHANGED <<serial_buffer, cpu_log_buffer, merged_timeline,
                 serial_line_count, cpu_log_line_count, running>>
  /\ UNCHANGED <<taskVars, envVars, monVars, histVars>>
  /\ UNCHANGED diskVars
  /\ UNCHANGED analysisVars

\* ------------------------------------------------- QemuMonitor.run_monitored
\* MonitorResult of the normal return
NormalResult ==
  [success |-> crash_info = <<>>, crashed |-> crash_info # <<>>,
   crash_info |-> crash_info, all_crashes |-> all_crashes,
   total_lines |-> total_lines]

\* MonitorResult of the `except Exception` branch
ErrorResult ==
  [success |-> FALSE, crashed |-> TRUE, crash_info |-> <<>>,
   all_crashes |-> <<>>, total_lines |-> 0]

\* the lines of a list of entries, as "\n".join(e.line for e in entries) writes
\* them
LinesOf(entries) == [i \in 1..Len(entries) |-> entries[i].line]

\* QemuMonitor._save_logs: serial.log and cpu.log
save_logs ==
  [serial |-> LinesOf(get_serial_context(SaveLines)),
   cpu |-> LinesOf(get_cpu_log_context(SaveLines))]

\* self.capture.add_callback(self._on_entry); await self.runner.start(...)
RunMonitored ==
  /\ mon_pc = "idle"
  /\ callbacks' = Append(callbacks, "on_entry")
  /\ mon_pc' = "starting"
  /\ UNCHANGED <<serial_buffer, cpu_log_buffer, merged_timeline,
                 serial_line_count, cpu_log_line_count, running>>
  /\ UNCHANGED <<crash_info, all_crashes, should_stop, stop_on_exception,
                 has_handler, result, log>>
  /\ UNCHANGED <<taskVars, envVars, histVars>>
  /\ UNCHANGED diskVars
  /\ UNCHANGED analysisVars

\* runner.start raised: log.error, MonitorResult(success=False, crashed=True)
MonStartFails ==
  /\ mon_pc = "starting"
  /\ log' = log \cup {"monitor_error"}
  /\ result' = <<ErrorResult>>
  /\ mon_pc' = "done"
  /\ UNCHANGED <<crash_info, all_crashes, should_stop, stop_on_exception,
                 has_handler>>
  /\ UNCHANGED <<captureVars, taskVars, envVars, histVars>>
  /\ UNCHANGED diskVars
  /\ UNCHANGED analysisVars

\* what run_monitored returns once both tasks have been awaited: the normal
\* MonitorResult after _save_logs, or, when `await task` re-raised the CPU
\* task's exception, log.error and the `except Exception` result
Finish(cpc) ==
  IF cpc = "failed"
  THEN /\ log' = log \cup {"monitor_error"}
       /\ result' = <<ErrorResult>>
       /\ UNCHANGED saved_logs
  ELSE /\ log' = log \cup {"saving_logs"}
       /\ saved_logs' = <<save_logs>>
       /\ result' = <<NormalResult>>

\* `# Cleanup`: capture.stop(); serial_task.cancel(); await serial_task.  When
\* the serial task was already over the await returns at once, the CPU task
\* is cancelled and awaited (no other coroutine is left to run) and
\* run_monitored returns.  spc, cpc: the tasks' positions.
Cleanup(spc, cpc) ==
  /\ running' = FALSE
  /\ stop_called' = TRUE
  /\ IF spc \in Finished
     THEN /\ serial_pc' = spc
          /\ cpu_pc' = IF cpc \in Finished THEN cpc ELSE "cancelled"
          /\ mon_pc' = "done"
          /\ Finish(cpc)
     ELSE /\ serial_pc' = "cancelled"
          /\ cpu_pc' = cpc
          /\ mon_pc' = "await_serial"
          /\ UNCHANGED <<log, result, saved_logs>>

\* runner.start returned (it has written an empty CPU log file and spawned the
\* emulator): create_task(capture_serial), create_task(capture_cpu_log), first
\* pass of the main loop (no stop request, exit_task not run yet), where the
\* timeout may already have elapsed (log.warning, process.terminate())
MonStarted ==
  /\ mon_pc = "starting"
  /\ ~should_stop
  /\ cpu_file_exists' = TRUE
  /\ cpu_file' = <<>>
  /\ \E timed_out \in BOOLEAN :
       IF timed_out
       THEN /\ proc_exited' = TRUE
            /\ running' = FALSE
            /\ stop_called' = TRUE
            /\ serial_pc' = "cancelled" /\ cpu_pc' = "created"
            /\ mon_pc' = "await_serial"
            /\ log' = log \cup {"timeout"}
       ELSE /\ serial_pc' = "created" /\ cpu_pc' = "created"
            /\ mon_pc' = "sleeping"
            /\ UNCHANGED <<log, proc_exited, running, stop_called>>
  /\ UNCHANGED <<serial_buffer, cpu_log_buffer, merged_timeline,
                 serial_line_count, cpu_log_line_count, callbacks>>
  /\ UNCHANGED cpu_pos
  /\ UNCHANGED <<serial_pipe, serial_written, cpu_written>>
  /\ UNCHANGED <<crash_info, all_crashes, should_stop, stop_on_exception,
                 has_handler, result>>
  /\ UNCHANGED <<delivered, handler_calls, detections, tail_truncated>>
  /\ UNCHANGED diskVars
  /\ UNCHANGED analysisVars

\* main loop, `if self._should_stop`: process.terminate(); await process.wait()
MonStopRequested ==
  /\ mon_pc = "sleeping"
  /\ Scheduled
  /\ should_stop
  /\ proc_exited' = TRUE
  /\ mon_pc' = "killing"
  /\ UNCHANGED <<serial_pipe, serial_written, cpu_file_exists, cpu_file,
                 cpu_written>>
  /\ UNCHANGED <<crash_info, all_crashes, should_stop, stop_on_exception,
                 has_handler, result, log>>
  /\ UNCHANGED <<captureVars, taskVars, histVars>>
  /\ UNCHANGED diskVars
  /\ UNCHANGED analysisVars

\* process.wait() returned: break, cleanup
MonKilled ==
  /\ mon_pc = "killing"
  /\ Scheduled
  /\ Cleanup(serial_pc, cpu_pc)
  /\ UNCHANGED <<serial_buffer, cpu_log_buffer, merged_timeline,
                 serial_line_count, cpu_log_line_count, callbacks>>
  /\ UNCHANGED cpu_pos
  /\ UNCHANGED <<crash_info, all_crashes, should_stop, stop_on_exception,
                 has_handler>>
  /\ UNCHANGED envVars
  /\ UNCHANGED <<delivered, handler_calls, detections, tail_truncated>>
  /\ UNCHANGED analysisVars

\* main loop, `if exit_task.done()`: break, cleanup
MonProcessExited ==
  /\ mon_pc = "sleeping"
  /\ Scheduled
  /\ ~should_stop
  /\ proc_exited
  /\ Cleanup(serial_pc, cpu_pc)
  /\ UNCHANGED <<serial_buffer, cpu_log_buffer, merged_timeline,
                 serial_line_count, cpu_log_line_count, callbacks>>
  /\ UNCHANGED cpu_pos
  /\ UNCHANGED <<crash_info, all_crashes, should_stop, stop_on_exception,
                 has_handler>>
  /\ UNCHANGED envVars
  /\ UNCHANGED <<delivered, handler_calls, detections, tail_truncated>>
  /\ UNCHANGED analysisVars

\* main loop, `if timeout and elapsed > timeout`: log.warning,
\* process.terminate(), break, cleanup
MonTimeout ==
  /\ mon_pc = "sleeping"
  /\ Scheduled
  /\ ~should_stop
  /\ ~proc_exited
  /\ proc_exited' = TRUE
  /\ running' = FALSE
  /\ stop_called' = TRUE
  /\ IF serial_pc \in Finished
     THEN /\ serial_pc' = serial_pc
          /\ cpu_pc' = IF cpu_pc \in Finished THEN cpu_pc ELSE "cancelled"
          /\ mon_pc' = "done"
          /\ IF cpu_pc = "failed"
             THEN /\ log' = log \cup {"timeout", "monitor_error"}
                  /\ result' = <<ErrorResult>>
                  /\ UNCHANGED saved_logs
             ELSE /\ log' = log \cup {"timeout", "saving_logs"}
                  /\ saved_logs' = <<save_logs>>
                  /\ result' = <<NormalResult>>
     ELSE /\ serial_pc' = "cancelled"
          /\ cpu_pc' = cpu_pc
          /\ mon_pc' = "await_serial"
          /\ log' = log \cup {"timeout"}
          /\ result' = result
          /\ UNCHANGED saved_logs
  /\ UNCHANGED <<serial_buffer, cpu_log_buffer, merged_timeline,
                 serial_line_count, cpu_log_line_count, callbacks>>
  /\ UNCHANGED cpu_pos
  /\ UNCHANGED <<serial_pipe, serial_written, cpu_file_exists, cpu_file,
                 cpu_written>>
  /\ UNCHANGED <<crash_info, all_crashes, should_stop, stop_on_exception,
                 has_handler>>
  /\ UNCHANGED <<delivered, handler_calls, detections, tail_truncated>>
  /\ UNCHANGED analysisVars

\* `await serial_task` returned (CancelledError is passed over):
\* cpu_task.cancel(); await cpu_task (no other coroutine is left to run);
\* run_monitored returns
MonAwaitSerial ==
  /\ mon_pc = "await_serial"
  /\ Scheduled
  /\ cpu_pc' = IF cpu_pc \in Finished THEN cpu_pc ELSE "cancelled"
  /\ mon_pc' = "done"
  /\ Finish(cpu_pc)
  /\ UNCHANGED <<serial_pc, cpu_pos>>
  /\ UNCHANGED <<crash_info, all_crashes, should_stop, stop_on_exception,
                 has_handler>>
  /\ UNCHANGED <<captureVars, envVars, histVars>>
  /\ UNCHANGED analysisVars

Next ==
  \/ ClientAddCallback \/ ClientStop
  \/ EmuWriteSerial \/ EnvRemoveCpuLog \/ EmuCreateCpuLog \/ EmuWriteCpu \/ EmuTruncateCpu \/ EmuExit
  \/ SerialStart \/ SerialReadLine \/ SerialEOF \/ SerialTimeout \/ SerialReadFails
  \/ CpuStart \/ CpuPoll \/ CpuOpenFails \/ CpuWake \/ CpuStopped \/ CpuReadLine
  \/ CpuReadEOF \/ CpuReadFails
  \/ RunMonitored \/ MonStartFails \/ MonStarted \/ MonStopRequested \/ MonKilled
  \/ MonProcessExited \/ MonTimeout \/ MonAwaitSerial

Spec == Init /\ [][Next]_vars

\* ================================================= analysis/detector.py
\* lines fed to one detector
MaxFed == 2

\* A log line, by what the detector's regular expressions find in it:
\*   rip, cr2, rsp  the value captured by RIP_RE, CR2_RE, RSP_RE, or None
\*   v      the hex digits that follow the line's "v=" (<<>>: there is none)
\*   check  "check_exception" stands before the "v="
\*   e      the digits are followed by whitespace and "e=<hex>"
\* A line has at most one "v="; timestamp and error_code are left out.
RipValues == {"r1", "r2"}
VDigits == {<<0, 7>>, <<0, 14>>, <<0, 9>>, <<2, 0>>, <<1, 0, 0>>}
DetLine(rip, cr2, rsp, v, check, e) ==
  [rip |-> rip, cr2 |-> cr2, rsp |-> rsp, v |-> v, check |-> check, e |-> e]
RegisterLines ==
  {DetLine(rip, cr2, rsp, <<>>, FALSE, FALSE) :
     rip \in RipValues \cup {None}, cr2 \in {"c1", None}, rsp \in {"s1", None}}
ExceptionLines ==
  {DetLine(regs[1], regs[2], None, v, check, e) :
     regs \in {<<None, None>>, <<"r2", "c1">>},
     v \in VDigits, check \in BOOLEAN, e \in BOOLEAN}
DetLines == RegisterLines \cup ExceptionLines

\* int(digits, 16)
RECURSIVE HexValue(_)
HexValue(ds) ==
  IF ds = <<>> THEN 0 ELSE 16 * HexValue(SubSeq(ds, 1, Len(ds) - 1)) + ds[Len(ds)]

\* the digits of n in base b, most significant first, at least `width` of them
RECURSIVE Digits(_, _, _)
Digits(n, b, width) ==
  IF n < b /\ width <= 1 THEN <<n>>
  ELSE Append(Digits(n \div b, b, width - 1), n % b)

\* ExceptionDetector.EXCEPTION_MAP: <<vector, name, mnemonic>>
EXCEPTION_MAP ==
  << <<0, "Divide Error", "#DE">>, <<1, "Debug", "#DB">>, <<2, "NMI", "NMI">>,
     <<3, "Breakpoint", "#BP">>, <<4, "Overflow", "#OF">>,
     <<5, "Bound Range", "#BR">>, <<6, "Invalid Opcode", "#UD">>,
     <<7, "Device Not Available", "#NM">>, <<8, "Double Fault", "#DF">>,
     <<10, "Invalid TSS", "#TS">>, <<11, "Segment Not Present", "#NP">>,
     <<12, "Stack Fault", "#SS">>, <<13, "General Protection", "#GP">>,
     <<14, "Page Fault", "#PF">>, <<16, "x87 FPU Error", "#MF">>,
     <<17, "Alignment Check", "#AC">>, <<18, "Machine Check", "#MC">>,
     <<19, "SIMD Exception", "#XM">>, <<20, "Virtualization", "#VE">> >>

\* the entry of a <<vector, name, code>> table for a vector, if it has one
Lookup(table, vector) ==
  IF \E i \in 1..Len(table) : table[i][1] = vector
  THEN Some(table[CHOOSE i \in 1..Len(table) : table[i][1] = vector])
  ELSE Nothing

\* a detector that names an unknown vector in hexadecimal
MapGet_HexName(vector) ==
  LET hit == Lookup(EXCEPTION_MAP, vector)
  IN IF hit # Nothing
     THEN [name |-> <<hit[1][2]>>, code |-> <<hit[1][3]>>]
     ELSE [name |-> <<"Exception ", Digits(vector, 16, 1)>>,
           code |-> <<"#0x", Digits(vector, 16, 2)>>]

\* EXCEPTION_MAP.get(vector, (f"Exception {vector}", f"#0x{vector:02X}")):
\* a text is the sequence of its pieces, a number piece the sequence of its
\* digits
MapGet(vector) ==
  LET hit == Lookup(EXCEPTION_MAP, vector)
  IN IF hit # Nothing
     THEN [name |-> <<hit[1][2]>>, code |-> <<hit[1][3]>>]
     ELSE [name |-> <<"Exception ", Digits(vector, 10, 1)>>,
           code |-> <<"#0x", Digits(vector, 16, 2)>>]

\* a detector that forgets the registers it has seen
process_line_Forgetful(rip, regs, line) ==
  [rip |-> line.rip, regs |-> [CR2 |-> line.cr2, RSP |-> line.rsp]]

\* ExceptionDetector.process_line, on (_last_rip, _last_regs)
process_line(rip, regs, line) ==
  [rip |-> IF line.rip # None THEN line.rip ELSE rip,
   regs |-> [CR2 |-> IF line.cr2 # None THEN line.cr2 ELSE regs.CR2,
             RSP |-> IF line.rsp # None THEN line.rsp ELSE regs.RSP]]

\* EXCEPTION_RE.search(line): the vector of group(1) or group(2), if it matches.
\* First alternative: check_exception.*v=<hex>+ ; second: v=<hex>{2}\s+e=<hex>+
RegexVector(line) ==
  IF line.v # <<>> /\ (line.check \/ (line.e /\ Len(line.v) = 2))
  THEN Some(HexValue(line.v))
  ELSE Nothing

\* the fallback loop: f"v={vec:02x}" in line.lower() for a vec of EXCEPTION_MAP
FallbackVector(line) ==
  IF Len(line.v) >= 2 /\ Lookup(EXCEPTION_MAP, HexValue(SubSeq(line.v, 1, 2))) # Nothing
  THEN Some(HexValue(SubSeq(line.v, 1, 2)))
  ELSE Nothing

\* a detector that fills the registers of an exception from the triggering line
create_exception_FromLine(st, vector, line) ==
  [vector |-> vector, name |-> MapGet(vector).name, code |-> MapGet(vector).code,
   rip |-> line.rip, cr2 |-> line.cr2, rsp |-> line.rsp, raw_line |-> line]

\* ExceptionDetector._create_exception with the state st
create_exception(st, vector, line) ==
  [vector |-> vector, name |-> MapGet(vector).name, code |-> MapGet(vector).code,
   rip |-> st.rip, cr2 |-> st.regs.CR2, rsp |-> st.regs.RSP, raw_line |-> line]

\* what ExceptionDetector.detect returns for a line, the state being st after
\* process_line
detect_result(st, line) ==
  IF RegexVector(line) # Nothing
  THEN Some(create_exception(st, RegexVector(line)[1], line))
  ELSE IF FallbackVector(line) # Nothing
       THEN Some(create_exception(st, FallbackVector(line)[1], line))
       ELSE Nothing

\* LogParser.EXCEPTION_RE.search(stripped): check_exception|v=<hex>{2}
ParserSeesException(line) == line.check \/ Len(line.v) >= 2

\* the capture session has not begun and takes no step
SessionIdle ==
  /\ serial_buffer = <<>> /\ cpu_log_buffer = <<>> /\ merged_timeline = <<>>
  /\ serial_line_count = 0 /\ cpu_log_line_count = 0
  /\ running = FALSE /\ callbacks = <<>>
  /\ serial_pc = "none" /\ cpu_pc = "none" /\ cpu_pos = 0
  /\ proc_exited = FALSE /\ serial_pipe = <<>> /\ serial_written = 0
  /\ cpu_file_exists = FALSE /\ cpu_file = <<>> /\ cpu_written = 0
  /\ mon_pc = "idle" /\ crash_info = <<>> /\ all_crashes = <<>>
  /\ should_stop = FALSE /\ stop_on_exception = TRUE /\ has_handler = TRUE
  /\ result = <<>> /\ log = {}
  /\ delivered = [o \in Observers |-> <<>>]
  /\ handler_calls = 0 /\ detections = 0 /\ stop_called = FALSE
  /\ tail_truncated = FALSE
  /\ saved_logs = <<>>

\* ExceptionDetector.__init__
InitDetector ==
  /\ SessionIdle
  /\ last_rip = None /\ last_regs = [CR2 |-> None, RSP |-> None]
  /\ detected = Nothing /\ fed = <<>>
  /\ args = <<>> /\ ret = <<>>

\* ExceptionDetector.detect(line)
Detect ==
  /\ Len(fed) < MaxFed
  /\ \E line \in DetLines :
       LET st == process_line(last_rip, last_regs, line)
       IN /\ last_rip' = st.rip
          /\ last_regs' = st.regs
          /\ detected' = detect_result(st, line)
          /\ fed' = Append(fed, line)
  /\ UNCHANGED <<sessionVars, callVars>>

\* ExceptionDetector.process_line(line), called on its own
ProcessLine ==
  /\ Len(fed) < MaxFed
  /\ \E line \in DetLines :
       LET st == process_line(last_rip, last_regs, line)
       IN /\ last_rip' = st.rip
          /\ last_regs' = st.regs
          /\ fed' = Append(fed, line)
  /\ detected' = Nothing
  /\ UNCHANGED <<sessionVars, callVars>>

\* LogParser.parse_line(line): detector.detect(stripped) when the parser's
\* EXCEPTION_RE matches, then detector.process_line(stripped)
ParseLine ==
  /\ Len(fed) + 2 <= MaxFed
  /\ \E line \in DetLines :
       LET st1 == process_line(last_rip, last_regs, line)
           st2 == IF ParserSeesException(line)
                  THEN process_line(st1.rip, st1.regs, line) ELSE st1
       IN /\ last_rip' = st2.rip
          /\ last_regs' = st2.regs
          /\ detected' = IF ParserSeesException(line)
                         THEN detect_result(st1, line) ELSE Nothing
          /\ fed' = IF ParserSeesException(line)
                    THEN fed \o <<line, line>> ELSE Append(fed, line)
  /\ UNCHANGED <<sessionVars, callVars>>

NextDetector == Detect \/ ProcessLine \/ ParseLine

SpecDetector == InitDetector /\ [][NextDetector]_vars


\* =============================================== analysis/diagnostics.py
\* patterns a context matches at most
MaxMatched == 2

\* _SEVERITY_ORDER
SEVERITY_ORDER == [info |-> 0, warning |-> 1, critical |-> 2]

\* KNOWN_PATTERNS in declaration order; the diagnosis and the solution of a
\* pattern are texts of their own, written <<"diagnosis", name>> and
\* <<"solution", name>>
KNOWN_PATTERNS ==
  << [name |-> "page_fault", severity |-> "critical"],
     [name |-> "general_protection", severity |-> "critical"],
     [name |-> "double_fault", severity |-> "critical"],
     [name |-> "invalid_opcode", severity |-> "critical"],
     [name |-> "divide_error", severity |-> "critical"],
     [name |-> "sse_in_kernel", severity |-> "critical"],
     [name |-> "stack_overflow_guard", severity |-> "critical"],
     [name |-> "null_pointer", severity |-> "critical"],
     [name |-> "rsp_null", severity |-> "critical"],
     [name |-> "timer_storm", severity |-> "warning"],
     [name |-> "unimplemented_msr", severity |-> "info"] >>
PatternNames == {KNOWN_PATTERNS[i].name : i \in 1..Len(KNOWN_PATTERNS)}

\* A context text, by the set of patterns whose trigger finds a match in it
ContextTexts == {t \in SUBSET PatternNames : Cardinality(t) <= MaxMatched}

\* Pattern.matches(text)
Matches(p, text) == p.name \in text

\* a lookup that returns the matching patterns last-declared first
find_patterns_Reversed(text) ==
  LET Rev[i \in 0..Len(KNOWN_PATTERNS)] ==
        IF i = 0 THEN <<>>
        ELSE IF Matches(KNOWN_PATTERNS[i], text)
             THEN <<KNOWN_PATTERNS[i]>> \o Rev[i - 1] ELSE Rev[i - 1]
  IN Rev[Len(KNOWN_PATTERNS)]

\* find_patterns(text): [p for p in KNOWN_PATTERNS.values() if p.matches(text)]
find_patterns(text) ==
  LET Sel[i \in 0..Len(KNOWN_PATTERNS)] ==
        IF i = 0 THEN <<>>
        ELSE IF Matches(KNOWN_PATTERNS[i], text)
             THEN Append(Sel[i - 1], KNOWN_PATTERNS[i]) ELSE Sel[i - 1]
  IN Sel[Len(KNOWN_PATTERNS)]

\* the least severity of a non-empty list of patterns
max_severity_Least(ps) ==
  LET i == CHOOSE i \in 1..Len(ps) : \A j \in 1..Len(ps) :
             SEVERITY_ORDER[ps[i].severity] <= SEVERITY_ORDER[ps[j].severity]
  IN ps[i].severity

\* max(p.severity for p in patterns), under Severity.__lt__
max_severity(ps) ==
  LET i == CHOOSE i \in 1..Len(ps) : \A j \in 1..Len(ps) :
             SEVERITY_ORDER[ps[j].severity] <= SEVERITY_ORDER[ps[i].severity]
  IN ps[i].severity

\* int(text, 16) of the register texts of a crash; a text outside the domain
\* raises ValueError
IntHex ==
  [t \in {"0x10", "0x2000", "0x2001", "ffffffff80001000"} |->
     CASE t = "0x10" -> 16
       [] t = "0x2000" -> 8192
       [] t = "0x2001" -> 8193
       [] OTHER -> 4096]
RipTexts == {"ffffffff80001000", "ffxx"}
Cr2Texts == {"0x10", "0x2000", "0x2001", "0xzz"}
ExceptionCodes == {"#PF", "#UD", "#GP", "#NM"}

\* a CrashInfo, whether the kernel binary exists, and how the tools end:
\* addr2line/nm and objdump find something ("found"), exit non-zero
\* ("failed"), or WSL is not installed ("missing")
ToolOutcomes == {"found", "failed", "missing"}
CrashInputs ==
  [exception_code : ExceptionCodes,
   rip : RipTexts \cup {None},
   cr2 : Cr2Texts \cup {None},
   context : ContextTexts,
   kernel_exists : BOOLEAN]

\* code_to_vector.get(exception_code, 0)
code_to_vector(code) ==
  CASE code = "#DE" -> 0 [] code = "#UD" -> 6 [] code = "#DF" -> 8
    [] code = "#GP" -> 13 [] code = "#PF" -> 14 [] OTHER -> 0

\* what leaves a try block in which exc was raised (None: nothing was), the
\* block having except clauses for the exceptions of handled
Uncaught(exc, handled) == IF exc \in handled THEN None ELSE exc

\* WslExecutor.run: create_subprocess_exec raises FileNotFoundError when WSL
\* is not installed; the except clause turns it into a failed result
WslRun(outcome) ==
  [raised |-> Uncaught(IF outcome = "missing" THEN "FileNotFoundError" ELSE None,
                       {"FileNotFoundError"}),
   success |-> outcome = "found"]

\* BinaryInspector.find_symbol_at and disassemble_at: an object or nothing;
\* neither has a try block around wsl.run
find_symbol_at(outcome) ==
  [raised |-> WslRun(outcome).raised,
   value |-> IF WslRun(outcome).success THEN Some("kernel_main") ELSE Nothing]
disassemble_at(outcome) ==
  [raised |-> WslRun(outcome).raised,
   value |-> IF WslRun(outcome).success THEN Some("disassembly") ELSE Nothing]

\* analyze_crash, stages 2 and 3: the try block around int(rip_str, 16), the
\* symbol lookup and the disassembly, with its except ValueError clause
LocateStage(crash, sym, dis) ==
  IF crash.rip = None
  THEN [raised |-> None, symbol |-> Nothing, disassembly |-> Nothing]
  ELSE IF crash.rip \notin DOMAIN IntHex
  THEN [raised |-> Uncaught("ValueError", {"ValueError"}),
        symbol |-> Nothing, disassembly |-> Nothing]
  ELSE IF ~crash.kernel_exists
  THEN [raised |-> None, symbol |-> Nothing, disassembly |-> Nothing]
  ELSE IF find_symbol_at(sym).raised # None
  THEN [raised |-> Uncaught(find_symbol_at(sym).raised, {"ValueError"}),
        symbol |-> Nothing, disassembly |-> Nothing]
  ELSE [raised |-> Uncaught(disassemble_at(dis).raised, {"ValueError"}),
        symbol |-> find_symbol_at(sym).value,
        disassembly |-> disassemble_at(dis).value]

\* DiagnosticEngine._determine_cause; a text is the sequence of its pieces
determine_cause(d) ==
  IF d.matching_patterns # <<>>
  THEN <<"diagnosis", d.matching_patterns[1].name>>
         \o (IF d.symbol # Nothing THEN <<"Localizacao: ", d.symbol[1]>> ELSE <<>>)
  ELSE CASE d.vector = 0 -> <<"Divisao por zero">>
         [] d.vector = 6 -> <<"Instrucao invalida">>
         [] d.vector = 8 -> <<"Double fault">>
         [] d.vector = 13 -> <<"Violacao de protecao">>
         [] d.vector = 14 ->
              <<"Page fault no endereco ",
                IF d.cr2 # None THEN d.cr2 ELSE "desconhecido">>
         [] OTHER -> <<"Excecao desconhecida">>

\* the suggestions before the fallback is considered
Suggested(d) ==
  [i \in 1..Len(d.matching_patterns) |-> <<"solution", d.matching_patterns[i].name>>]
    \o (IF d.symbol # Nothing THEN << <<"Verificar codigo da funcao", d.symbol[1]>> >>
        ELSE <<>>)
    \o (IF d.vector = 14 /\ d.cr2 # None /\ d.cr2 \in DOMAIN IntHex
        THEN IF IntHex[d.cr2] < 4096
             THEN << <<"NULL pointer dereference detectado">> >>
             ELSE IF IntHex[d.cr2] % 4096 = 0
                  THEN << <<"Acesso a pagina nao mapeada">> >>
                  ELSE <<>>
        ELSE <<>>)
    \o (IF d.vector = 6 THEN << <<"Executar anvil inspect kernel --check-sse">> >>
        ELSE <<>>)

\* suggestions without the closing fallback
generate_suggestions_NoFallback(d) == Suggested(d)

\* DiagnosticEngine._generate_suggestions
generate_suggestions(d) ==
  IF Suggested(d) = <<>>
  THEN << <<"Analisar contexto do log para mais informacoes">> >>
  ELSE Suggested(d)

\* DiagnosticEngine.analyze_crash: the Diagnosis returned, given how the symbol
\* lookup and the disassembly end
analyze_crash(crash, sym, dis) ==
  LET found == find_patterns(crash.context)
      located == LocateStage(crash, sym, dis)
      d == [vector |-> code_to_vector(crash.exception_code), cr2 |-> crash.cr2,
            matching_patterns |-> found,
            symbol |-> located.symbol, disassembly |-> located.disassembly]
  IN [raised |-> located.raised,
      matching_patterns |-> found,
      symbol |-> located.symbol,
      disassembly |-> located.disassembly,
      probable_cause |-> determine_cause(d),
      suggestions |-> generate_suggestions(d),
      severity |-> IF found # <<>> THEN max_severity(found) ELSE "critical"]

\* a crash is at hand; the engine has not been called
InitDiagnostics ==
  /\ SessionIdle
  /\ last_rip = None /\ last_regs = [CR2 |-> None, RSP |-> None]
  /\ detected = Nothing /\ fed = <<>>
  /\ args \in {<<crash>> : crash \in CrashInputs}
  /\ ret = <<>>

\* await engine.analyze_crash(crash_info)
AnalyzeCrash ==
  /\ ret = <<>>
  /\ \E sym \in ToolOutcomes, dis \in ToolOutcomes :
       ret' = <<analyze_crash(args[1], sym, dis)>>
  /\ UNCHANGED <<args, sessionVars, detectorVars>>

NextDiagnostics == AnalyzeCrash

SpecDiagnostics == InitDiagnostics /\ [][NextDiagnostics]_vars


\* ======================================================= core/paths.py
\* components of a path after its drive
MaxParts == 3

\* A native path: a drive letter and the components after "<drive>:\".
\* A string is the sequence of its pieces: a component, a separator, a letter.
DriveLetters == {"c", "C", "d", "D"}
Components == {"a", "b", ".."}
Lower == [c \in DriveLetters |-> IF c \in {"c", "C"} THEN "c" ELSE "d"]
Upper == [c \in DriveLetters |-> IF c \in {"c", "C"} THEN "C" ELSE "D"]
SeqsUpTo(S, n) == UNION {[1..k -> S] : k \in 0..n}
NativePaths == [drive : DriveLetters, parts : SeqsUpTo(Components, MaxParts)]

\* Path.resolve() on an absolute path without links: ".." removes the
\* component before it and is dropped at the root; the drive letter of an
\* existing path comes back as the volume spells it
RECURSIVE Collapse(_)
Collapse(parts) ==
  IF parts = <<>> THEN <<>>
  ELSE LET before == Collapse(SubSeq(parts, 1, Len(parts) - 1))
       IN IF parts[Len(parts)] = ".."
          THEN SubSeq(before, 1, Len(before) - 1)
          ELSE Append(before, parts[Len(parts)])
Resolve(path, exists) ==
  [drive |-> IF exists THEN Upper[path.drive] ELSE path.drive,
   parts |-> Collapse(path.parts)]

\* str(path) of a native path: "D:\" and the components joined by "\"
RECURSIVE Join(_, _)
Join(parts, sep) ==
  IF parts = <<>> THEN <<>>
  ELSE IF Len(parts) = 1 THEN <<parts[1]>>
  ELSE <<parts[1], sep>> \o Join(Tail(parts), sep)
Str(path) == <<path.drive, ":", "\\">> \o Join(path.parts, "\\")

\* s.replace(old, new) on the pieces of a string
Replace(s, old, new) == [i \in 1..Len(s) |-> IF s[i] = old THEN new ELSE s[i]]

\* Paths.to_wsl(path)
to_wsl(path, exists) ==
  LET path_str == Str(Resolve(path, exists))
  IN IF Len(path_str) >= 2 /\ path_str[2] = ":"
     THEN <<"/", "m", "n", "t", "/", Lower[path_str[1]]>>
            \o Replace(SubSeq(path_str, 3, Len(path_str)), "\\", "/")
     ELSE Replace(path_str, "\\", "/")

\* Path(text) of a native string: the drive before ":" if there is one, and
\* the components between the separators
RECURSIVE Split(_)
Split(s) ==
  IF s = <<>> THEN <<>>
  ELSE IF s[1] = "\\" THEN Split(Tail(s))
  ELSE <<s[1]>> \o Split(Tail(s))
PathOf(s) ==
  IF Len(s) >= 2 /\ s[2] = ":"
  THEN [drive |-> s[1], parts |-> Split(SubSeq(s, 3, Len(s)))]
  ELSE [drive |-> "", parts |-> Split(s)]

\* Paths.from_wsl(wsl_path)
from_wsl(wsl_path) ==
  IF Len(wsl_path) >= 6 /\ SubSeq(wsl_path, 1, 5) = <<"/", "m", "n", "t", "/">>
  THEN PathOf(<<Upper[wsl_path[6]], ":">>
                \o Replace(SubSeq(wsl_path, 7, Len(wsl_path)), "/", "\\"))
  ELSE PathOf(Replace(wsl_path, "/", "\\"))

\* a native path is at hand; nothing has been converted
InitPaths ==
  /\ SessionIdle
  /\ last_rip = None /\ last_regs = [CR2 |-> None, RSP |-> None]
  /\ detected = Nothing /\ fed = <<>>
  /\ args \in {<<path>> : path \in NativePaths}
  /\ ret = <<>>

\* wsl = Paths.to_wsl(p)
ToWsl ==
  /\ ret = <<>>
  /\ \E exists \in BOOLEAN :
       ret' = <<[wsl |-> to_wsl(args[1], exists), back |-> Nothing]>>
  /\ UNCHANGED <<args, sessionVars, detectorVars>>

\* Paths.from_wsl(wsl)
FromWsl ==
  /\ ret # <<>> /\ ret[1].back = Nothing
  /\ ret' = <<[ret[1] EXCEPT !.back = Some(from_wsl(ret[1].wsl))]>>
  /\ UNCHANGED <<args, sessionVars, detectorVars>>

NextPaths == ToWsl \/ FromWsl

SpecPaths == InitPaths /\ [][NextPaths]_vars


\* ================================================ analysis/inspector.py
\* symbols nm lists, and the greatest address
MaxSyms == 3
MaxAddr == 3

\* The output of `nm -C <binary> | sort -k1`: lines "<address> <type> <name>"
\* in ascending order of address; a symbol is named by its line
Addresses == 0..MaxAddr
NmListings ==
  {l \in SeqsUpTo(Addresses, MaxSyms) : \A i, j \in 1..Len(l) : i < j => l[i] <= l[j]}
NmSymbol(listing, i) == [name |-> <<"nm line", i>>, address |-> listing[i]]

\* what find_symbol is called on: the address, whether addr2line gives a
\* usable function name, whether the nm command succeeds, and nm's listing
SymbolInputs ==
  [address : Addresses, addr2line : BOOLEAN, nm_success : BOOLEAN,
   listing : NmListings]

\* the loop over the lines of nm: best_match and best_addr after line i
NmScan(listing, address) ==
  LET Scan[i \in 0..Len(listing)] ==
        IF i = 0 THEN [best_match |-> Nothing, best_addr |-> 0]
        ELSE IF listing[i] <= address /\ listing[i] > Scan[i - 1].best_addr
             THEN [best_match |-> Some(NmSymbol(listing, i)), best_addr |-> listing[i]]
             ELSE Scan[i - 1]
  IN Scan[Len(listing)]

\* BinaryInspector.find_symbol (find_symbol_at in binary_inspector.py)
find_symbol(in) ==
  IF in.addr2line
  THEN Some([name |-> <<"addr2line">>, address |-> in.address])
  ELSE IF ~in.nm_success THEN Nothing
  ELSE NmScan(in.listing, in.address).best_match

\* a binary and an address are at hand; the inspector has not been called
InitInspector ==
  /\ SessionIdle
  /\ last_rip = None /\ last_regs = [CR2 |-> None, RSP |-> None]
  /\ detected = Nothing /\ fed = <<>>
  /\ args \in {<<in>> : in \in SymbolInputs}
  /\ ret = <<>>

\* await inspector.find_symbol(binary, address)
FindSymbol ==
  /\ ret = <<>>
  /\ ret' = <<find_symbol(args[1])>>
  /\ UNCHANGED <<args, sessionVars, detectorVars>>

NextInspector == FindSymbol

SpecInspector == InitInspector /\ [][NextInspector]_vars


\* ===================================================== build/artifacts.py
\* bytes of a file
MaxFileLen == 70

ELF_MAGIC == <<127, 69, 76, 70>>
PE_MAGIC == <<77, 90>>
\* b"PE\x00\x00"
PE_SIGNATURE == <<80, 69, 0, 0>>

\* An ELF header: e_ident[EI_CLASS] at byte 4, e_entry at bytes 24..31,
\* little-endian; here 0xFFFFFFFF80000000 or 0x100000
ElfImage(ei_class, high) ==
  [i \in 1..MaxFileLen |->
     CASE i <= 4 -> ELF_MAGIC[i]
       [] i = 5 -> ei_class
       [] i \in 25..32 ->
            IF high THEN <<0, 0, 0, 128, 255, 255, 255, 255>>[i - 24]
            ELSE <<0, 0, 16, 0, 0, 0, 0, 0>>[i - 24]
       [] OTHER -> 0]

\* A PE image: e_lfanew at 0x3C (here 0x40), the signature there, and the
\* machine type after it, little-endian
PeImage(signature, machine) ==
  [i \in 1..MaxFileLen |->
     CASE i <= 2 -> PE_MAGIC[i]
       [] i = 61 -> 64
       [] i \in 65..68 -> signature[i - 64]
       [] i \in 69..70 -> machine[i - 68]
       [] OTHER -> 0]

Images ==
  {ElfImage(c, h) : c \in {1, 2}, h \in BOOLEAN}
    \cup {PeImage(sig, m) : sig \in {PE_SIGNATURE, <<80, 69, 0, 1>>},
                            m \in {<<100, 134>>, <<76, 1>>}}
    \cup {[i \in 1..MaxFileLen |-> 0]}

\* the files: each image cut off after any number of bytes, and no file
Files ==
  {[exists |-> TRUE, content |-> SubSeq(img, 1, n)] : img \in Images, n \in 0..MaxFileLen}
    \cup {[exists |-> FALSE, content |-> <<>>]}

\* f.seek(pos); f.read(k): the bytes there are, at most k
Read(content, pos, k) == SubSeq(content, pos + 1, Min(pos + k, Len(content)))

\* the number a little-endian byte string writes
RECURSIVE LittleEndian(_)
LittleEndian(bytes) ==
  IF bytes = <<>> THEN 0 ELSE bytes[1] + 256 * LittleEndian(Tail(bytes))

\* struct.unpack(format, bytes) of a format of `size` bytes raises struct.error
\* unless it is given exactly that many
UnpackRaises(bytes, size) == Len(bytes) # size

\* entry_point < 0xFFFFFFFF80000000 for the 8 bytes of a "<Q", compared byte
\* by byte as the number exceeds the integers of the checker
BelowHighHalf(entry_bytes) ==
  ~(/\ \A i \in 5..8 : entry_bytes[i] = 255
    /\ entry_bytes[4] >= 128)

\* how a validator ends: a ValidationResult, or an exception
Returned(valid, issues) == [raised |-> None, valid |-> valid, issues |-> issues]
Raised(exc) == [raised |-> exc, valid |-> FALSE, issues |-> <<>>]

\* ArtifactValidator.validate_kernel
validate_kernel(file) ==
  IF ~file.exists THEN Returned(FALSE, <<"File not found">>)
  ELSE IF Len(file.content) = 0 THEN Returned(FALSE, <<"File is empty">>)
  ELSE IF Read(file.content, 0, 4) # ELF_MAGIC
  THEN Returned(FALSE, <<"Not a valid ELF file">>)
  ELSE LET ei_class == Read(file.content, 4, 1)
           entry_bytes == Read(file.content, 24, 8)
           class_issue == IF ei_class # <<2>> THEN <<"Not ELF64">> ELSE <<>>
       IN IF UnpackRaises(entry_bytes, 8) THEN Raised("struct.error")
          ELSE LET issues == class_issue \o
                     (IF BelowHighHalf(entry_bytes)
                      THEN <<"Entry point not in high-half">> ELSE <<>>)
               IN Returned(Len(issues) = 0, issues)

\* ArtifactValidator.validate_bootloader
validate_bootloader(file) ==
  IF ~file.exists THEN Returned(FALSE, <<"File not found">>)
  ELSE IF Len(file.content) = 0 THEN Returned(FALSE, <<"File is empty">>)
  ELSE IF Read(file.content, 0, 2) # PE_MAGIC
  THEN Returned(FALSE, <<"Not a valid PE file">>)
  ELSE IF UnpackRaises(Read(file.content, 60, 4), 4) THEN Raised("struct.error")
  ELSE LET pe_offset == LittleEndian(Read(file.content, 60, 4))
       IN IF Read(file.content, pe_offset, 4) # PE_SIGNATURE
          THEN Returned(FALSE, <<"Invalid PE signature">>)
          ELSE IF UnpackRaises(Read(file.content, pe_offset + 4, 2), 2)
          THEN Raised("struct.error")
          ELSE IF LittleEndian(Read(file.content, pe_offset + 4, 2)) # 34404
          THEN Returned(FALSE, <<"Wrong machine type">>)
          ELSE Returned(TRUE, <<>>)

\* a build has left a file, or none
InitValidator ==
  /\ SessionIdle
  /\ last_rip = None /\ last_regs = [CR2 |-> None, RSP |-> None]
  /\ detected = Nothing /\ fed = <<>>
  /\ args \in {<<file>> : file \in Files}
  /\ ret = <<>>

\* validator.validate_kernel(path)
ValidateKernel ==
  /\ ret = <<>>
  /\ ret' = <<"kernel", validate_kernel(args[1])>>
  /\ UNCHANGED <<args, sessionVars, detectorVars>>

\* validator.validate_bootloader(path)
ValidateBootloader ==
  /\ ret = <<>>
  /\ ret' = <<"bootloader", validate_bootloader(args[1])>>
  /\ UNCHANGED <<args, sessionVars, detectorVars>>

NextValidator == ValidateKernel \/ ValidateBootloader

SpecValidator == InitValidator /\ [][NextValidator]_vars


\* ================================ analysis/inspector.py: disassemble_at
\* the greatest code address, and the bytes shown on each side of the anchor
\* (context * 4 = 80 in the source, scaled)
MaxCode == 4
WindowBytes == 2

\* A binary: one instruction at each address 0..MaxCode, and the addresses at
\* which a function begins (one begins at 0); a function is named by the
\* address it begins at
CodeAddresses == 0..MaxCode
Layouts == {starts \cup {0} : starts \in SUBSET (1..MaxCode)}
FunctionOf(starts, a) == CHOOSE f \in starts : f <= a /\ \A g \in starts : g <= a => g <= f

\* what disassemble_at is called on: the layout of the binary, the address,
\* and whether objdump succeeds
DisasmInputs == [starts : Layouts, address : CodeAddresses, objdump : BOOLEAN]

\* the output of objdump -d --start-address=first --stop-address=last (the
\* stop address is not shown): before the first instruction and before each
\* instruction at which a function begins a line "<address> <function+offset>:",
\* then the line "<address>:  <mnemonic>"
RECURSIVE ObjdumpLines(_, _, _, _)
ObjdumpLines(starts, first, a, last) ==
  IF a >= last \/ a > MaxCode THEN <<>>
  ELSE (IF a = first \/ a \in starts
        THEN <<[kind |-> "header", func |-> FunctionOf(starts, a),
                offset |-> a - FunctionOf(starts, a)]>>
        ELSE <<>>)
       \o <<[kind |-> "insn", addr |-> a, asm |-> <<"asm", a>>]>>
       \o ObjdumpLines(starts, first, a + 1, last)

\* the loop over the lines of objdump: instructions and current_symbol after
\* line i
DisasmScan(lines) ==
  LET Scan[i \in 0..Len(lines)] ==
        IF i = 0 THEN [instructions |-> <<>>, current_symbol |-> Nothing]
        ELSE IF lines[i].kind = "header"
             THEN [Scan[i - 1] EXCEPT
                     !.current_symbol = Some(<<lines[i].func, lines[i].offset>>)]
             ELSE [Scan[i - 1] EXCEPT
                     !.instructions = Append(@, <<lines[i].addr, "", lines[i].asm>>)]
  IN Scan[Len(lines)]

\* BinaryInspector.disassemble_at
disassemble(in) ==
  LET start == Max(0, in.address - WindowBytes)
      end == in.address + WindowBytes
      scan == DisasmScan(ObjdumpLines(in.starts, start, start, end))
  IN IF ~in.objdump THEN Nothing
     ELSE Some([address |-> in.address,
                instructions |-> scan.instructions,
                symbol |-> IF scan.current_symbol # Nothing
                           THEN Some([name |-> scan.current_symbol[1],
                                      address |-> in.address])
                           ELSE Nothing])

\* a binary and an address are at hand; nothing has been disassembled
InitDisasm ==
  /\ SessionIdle
  /\ last_rip = None /\ last_regs = [CR2 |-> None, RSP |-> None]
  /\ detected = Nothing /\ fed = <<>>
  /\ args \in {<<in>> : in \in DisasmInputs}
  /\ ret = <<>>

\* await inspector.disassemble_at(binary, address)
DisassembleAt ==
  /\ ret = <<>>
  /\ ret' = <<disassemble(args[1])>>
  /\ UNCHANGED <<args, sessionVars, detectorVars>>

NextDisasm == DisassembleAt

SpecDisasm == InitDisasm /\ [][NextDisasm]_vars


\* ================================ runner/monitor.py: _detect_exception
\* QemuMonitor.EXCEPTIONS in declaration order: <<the two hex digits of the
\* pattern "v=..", name, code>>
EXCEPTIONS ==
  << <<<<0, 0>>, "Divide Error", "#DE">>,
     <<<<0, 6>>, "Invalid Opcode", "#UD">>,
     <<<<0, 8>>, "Double Fault", "#DF">>,
     <<<<0, 13>>, "General Protection", "#GP">>,
     <<<<0, 14>>, "Page Fault", "#PF">> >>

\* A line the monitor is given, by what _detect_exception looks for in it:
\*   v      the two hex digits after the line's "v=" (<<>>: there is none)
\*   check  the line contains "check_exception"
\*   cr2, rsp  the value of the line's CR2= and RSP=, or None
MonitorLines ==
  [v : {<<>>, <<0, 0>>, <<0, 6>>, <<0, 8>>, <<0, 13>>, <<0, 14>>, <<2, 0>>},
   check : BOOLEAN, cr2 : {"c1", None}, rsp : {"s1", None}]

\* `pattern in line`
PatternIn(pattern, line) == line.v = pattern

\* QemuMonitor._detect_exception(entry), _last_rip being rip
detect_exception(line, rip) ==
  LET hits == {i \in 1..Len(EXCEPTIONS) : PatternIn(EXCEPTIONS[i][1], line) \/ line.check}
  IN IF hits = {} THEN Nothing
     ELSE LET i == CHOOSE i \in hits : \A j \in hits : i <= j
          IN Some([exception_type |-> EXCEPTIONS[i][2],
                   exception_code |-> EXCEPTIONS[i][3],
                   context_lines |-> get_context(ContextLines),
                   rip |-> rip,
                   cr2 |-> IF PatternIn(<<0, 14>>, line) THEN line.cr2 ELSE None,
                   rsp |-> line.rsp])

\* an entry reaches the monitor, which has seen a RIP= line or has not
InitMonitorDetect ==
  /\ SessionIdle
  /\ last_rip = None /\ last_regs = [CR2 |-> None, RSP |-> None]
  /\ detected = Nothing /\ fed = <<>>
  /\ args \in {<<line, rip>> : line \in MonitorLines, rip \in {"RIP=r1", None}}
  /\ ret = <<>>

\* crash = self._detect_exception(entry)
DetectCrash ==
  /\ ret = <<>>
  /\ ret' = <<detect_exception(args[1], args[2])>>
  /\ UNCHANGED <<args, sessionVars, detectorVars>>

NextMonitorDetect == DetectCrash

SpecMonitorDetect == InitMonitorDetect /\ [][NextMonitorDetect]_vars

\* ==================== runner/streams.py: capture_cpu_log, character level
\* The log file as the characters the emulator has written to it so far: the
\* emulator's buffered writes land in pieces of any size, so a line may be
\* in the file without its newline yet.
MaxFile == 4
NL == "\n"
Chars == {"x", NL}

\* f.readline() of a text file at offset pos: up to and including the next
\* newline, or up to the end of the file when no newline follows
readline(file, pos) ==
  LET rest == SubSeq(file, pos + 1, Len(file))
      nl == {i \in 1..Len(rest) : rest[i] = NL}
  IN IF nl = {} THEN rest
     ELSE SubSeq(rest, 1, CHOOSE i \in nl : \A j \in nl : i <= j)

\* line.rstrip(): the line read holds at most one newline, at its end
rstrip(line) ==
  IF line # <<>> /\ line[Len(line)] = NL
  THEN SubSeq(line, 1, Len(line) - 1)
  ELSE line

\* The producer after `f.seek(0, 2)`: args[1] is the file, ret[1] the
\* producer (pc: "loop" at the `while self._running` test, "sleep" in
\* `await asyncio.sleep(0.05)`, "returned"/"cancelled" once the task is over;
\* seek: the offset f.seek(0, 2) moved to; pos: the current offset).
InitTail ==
  /\ SessionIdle
  /\ last_rip = None /\ last_regs = [CR2 |-> None, RSP |-> None]
  /\ detected = Nothing /\ fed = <<>>
  /\ args \in {<<file>> : file \in {<<>>, <<"x">>, <<"x", NL>>}}
  /\ ret = <<[pc |-> "loop", _running |-> TRUE, seek |-> Len(args[1]),
              pos |-> Len(args[1]), _cpu_log_line_count |-> 0,
              cpu_log_buffer |-> <<>>]>>

\* the emulator's next character reaches the file
TailEmuWrite ==
  /\ Len(args[1]) < MaxFile
  /\ \E c \in Chars : args' = <<Append(args[1], c)>>
  /\ UNCHANGED <<ret, sessionVars, detectorVars>>

\* one pass of the loop body with something to read
TailReadLine ==
  LET t == ret[1]
      line == readline(args[1], t.pos)
      stripped == rstrip(line)
  IN /\ t.pc = "loop" /\ t._running
     /\ line # <<>>
     /\ ret' = <<[t EXCEPT
                    !.pos = @ + Len(line),
                    !._cpu_log_line_count = @ + 1,
                    !.cpu_log_buffer =
                      IF stripped = <<>> THEN @
                      ELSE Append(@, [line |-> stripped,
                                      line_number |-> t._cpu_log_line_count + 1])]>>
     /\ UNCHANGED <<args, sessionVars, detectorVars>>

\* `if not line: await asyncio.sleep(0.05)`
TailReadNothing ==
  /\ ret[1].pc = "loop" /\ ret[1]._running
  /\ readline(args[1], ret[1].pos) = <<>>
  /\ ret' = <<[ret[1] EXCEPT !.pc = "sleep"]>>
  /\ UNCHANGED <<args, sessionVars, detectorVars>>

\* the sleep is over: `continue`
TailWake ==
  /\ ret[1].pc = "sleep"
  /\ ret' = <<[ret[1] EXCEPT !.pc = "loop"]>>
  /\ UNCHANGED <<args, sessionVars, detectorVars>>

\* `while self._running` is false
TailLoopEnds ==
  /\ ret[1].pc = "loop" /\ ~ret[1]._running
  /\ ret' = <<[ret[1] EXCEPT !.pc = "returned"]>>
  /\ UNCHANGED <<args, sessionVars, detectorVars>>

\* capture.stop()
TailStop ==
  /\ ret[1]._running
  /\ ret' = <<[ret[1] EXCEPT !._running = FALSE]>>
  /\ UNCHANGED <<args, sessionVars, detectorVars>>

\* task.cancel(): CancelledError is raised at the task's await
TailCancel ==
  /\ ret[1].pc = "sleep" /\ ~ret[1]._running
  /\ ret' = <<[ret[1] EXCEPT !.pc = "cancelled"]>>
  /\ UNCHANGED <<args, sessionVars, detectorVars>>

NextTail ==
  \/ TailEmuWrite \/ TailReadLine \/ TailReadNothing \/ TailWake
  \/ TailLoopEnds \/ TailStop \/ TailCancel

SpecTail == InitTail /\ [][NextTail]_vars

\* ================= runner/streams.py: _emit with observers that register
\* Observers are callables of the clients; when one is invoked it may call
\* capture.add_callback(other). args[1] gives, per observer, the observer it
\* registers on its first invocation (None: it registers nothing); ret[1] is
\* the capture (_callbacks, merged_timeline as entry numbers), the observers
\* that have not registered theirs yet (armed) and the observers the last
\* _emit invoked, in order (calls).
MaxObservers == 3
MaxEntries == 2
Callables == {"a", "b"}

\* `for callback in self._callbacks: callback(entry)`: the loop indexes the
\* list itself, so it sees what a callback appended to it
RECURSIVE DispatchLive(_, _, _, _, _)
DispatchLive(cbs, i, calls, armed, adds) ==
  IF i > Len(cbs) THEN [_callbacks |-> cbs, calls |-> calls, armed |-> armed]
  ELSE LET o == cbs[i]
           registers == o \in armed /\ adds[o] # None
       IN DispatchLive(IF registers THEN Append(cbs, adds[o]) ELSE cbs,
                       i + 1, Append(calls, o),
                       IF registers THEN armed \ {o} ELSE armed, adds)

\* DualStreamCapture._emit
emit_entry(capture, adds) ==
  LET d == DispatchLive(capture._callbacks, 1, <<>>, capture.armed, adds)
  IN [_callbacks |-> d._callbacks,
      merged_timeline |-> Append(capture.merged_timeline,
                                 Len(capture.merged_timeline) + 1),
      armed |-> d.armed,
      calls |-> d.calls]

InitEmit ==
  /\ SessionIdle
  /\ last_rip = None /\ last_regs = [CR2 |-> None, RSP |-> None]
  /\ detected = Nothing /\ fed = <<>>
  /\ args \in {<<adds>> : adds \in [Callables -> Callables \cup {None}]}
  /\ ret = <<[_callbacks |-> <<>>, merged_timeline |-> <<>>,
              armed |-> Callables, calls |-> <<>>]>>

\* DualStreamCapture.add_callback, called by a client between two entries
AddCallback ==
  /\ Len(ret[1]._callbacks) < MaxObservers
  /\ \E o \in Callables :
       ret' = <<[ret[1] EXCEPT !._callbacks = Append(@, o)]>>
  /\ UNCHANGED <<args, sessionVars, detectorVars>>

\* a producer emits its next entry
EmitEntry ==
  /\ Len(ret[1].merged_timeline) < MaxEntries
  /\ ret' = <<emit_entry(ret[1], args[1])>>
  /\ UNCHANGED <<args, sessionVars, detectorVars>>

NextEmit == AddCallback \/ EmitEntry

SpecEmit == InitEmit /\ [][NextEmit]_vars

\* ======== runner/monitor.py: run_monitored and its two tasks, as a system
\* that keeps running however many lines the emulator produces
\* What the sources hold is kept as the number of lines not read yet (at
\* most MaxUnread at a time; the emulator may write again after every read),
\* the content of a line as whether _detect_exception finds an exception in
\* it. args[1]: whether a timeout was given and stop_on_exception; ret[1]:
\*   main    "sleep" in `await asyncio.sleep(0.1)`, "terminating" in
\*           `await process.wait()` after terminate(), "join" in
\*           `await task`, "returned"
\*   cpu     "sleep" in `await asyncio.sleep(0.05)`, "active" in the loop
\*           body, "over"
\*   serial  "wait" in `await asyncio.wait_for(stream.readline(), 0.1)`,
\*           "over"
MaxUnread == 2

InitLive ==
  /\ SessionIdle
  /\ last_rip = None /\ last_regs = [CR2 |-> None, RSP |-> None]
  /\ detected = Nothing /\ fed = <<>>
  /\ args \in {<<a>> : a \in [timeout : BOOLEAN, stop_on_exception : BOOLEAN]}
  /\ ret = <<[main |-> "sleep", cpu |-> "sleep", serial |-> "wait",
              _running |-> TRUE, _should_stop |-> FALSE, exited |-> FALSE,
              elapsed |-> FALSE, unread |-> 0, pending |-> 0]>>

\* one coroutine runs at a time: the others resume only when the running one
\* awaits, and the CPU-log loop awaits only when readline() returned ""
LiveScheduled == ret[1].cpu # "active"

\* --- the emulator and the clock
LiveEmuWriteCpu ==
  /\ ~ret[1].exited /\ ret[1].unread < MaxUnread
  /\ ret' = <<[ret[1] EXCEPT !.unread = @ + 1]>>
  /\ UNCHANGED <<args, sessionVars, detectorVars>>

LiveEmuWriteSerial ==
  /\ ~ret[1].exited /\ ret[1].pending < MaxUnread
  /\ ret' = <<[ret[1] EXCEPT !.pending = @ + 1]>>
  /\ UNCHANGED <<args, sessionVars, detectorVars>>

\* the emulator ends by itself
LiveEmuExit ==
  /\ ~ret[1].exited /\ ret[1].main # "terminating"
  /\ ret' = <<[ret[1] EXCEPT !.exited = TRUE]>>
  /\ UNCHANGED <<args, sessionVars, detectorVars>>

\* the emulator ends after process.terminate()
LiveKilled ==
  /\ ~ret[1].exited /\ ret[1].main = "terminating"
  /\ ret' = <<[ret[1] EXCEPT !.exited = TRUE]>>
  /\ UNCHANGED <<args, sessionVars, detectorVars>>

\* time.time() - start exceeds the timeout
LiveTimeoutElapses ==
  /\ args[1].timeout /\ ~ret[1].elapsed
  /\ ret' = <<[ret[1] EXCEPT !.elapsed = TRUE]>>
  /\ UNCHANGED <<args, sessionVars, detectorVars>>

\* --- capture_cpu_log
\* back from sleep(0.05): `while self._running`
LiveCpuWake ==
  /\ ret[1].cpu = "sleep"
  /\ LiveScheduled
  /\ ret' = <<[ret[1] EXCEPT !.cpu = IF ret[1]._running THEN "active" ELSE "over"]>>
  /\ UNCHANGED <<args, sessionVars, detectorVars>>

\* readline() returned a line; _emit, _on_entry; `while self._running`; no
\* await on this path
LiveCpuReadLine ==
  /\ ret[1].cpu = "active"
  /\ ret[1].unread > 0
  /\ \E exception \in BOOLEAN :
       ret' = <<[ret[1] EXCEPT
                   !.unread = @ - 1,
                   !._should_stop = @ \/ (exception /\ args[1].stop_on_exception),
                   !.cpu = IF ret[1]._running THEN "active" ELSE "over"]>>
  /\ UNCHANGED <<args, sessionVars, detectorVars>>

\* readline() returned "": await asyncio.sleep(0.05)
LiveCpuReadNothing ==
  /\ ret[1].cpu = "active"
  /\ ret[1].unread = 0
  /\ ret' = <<[ret[1] EXCEPT !.cpu = "sleep"]>>
  /\ UNCHANGED <<args, sessionVars, detectorVars>>

\* --- capture_serial
LiveSerialReadLine ==
  /\ ret[1].serial = "wait"
  /\ LiveScheduled
  /\ ret[1].pending > 0
  /\ \E exception \in BOOLEAN :
       ret' = <<[ret[1] EXCEPT
                   !.pending = @ - 1,
                   !._should_stop = @ \/ (exception /\ args[1].stop_on_exception),
                   !.serial = IF ret[1]._running THEN "wait" ELSE "over"]>>
  /\ UNCHANGED <<args, sessionVars, detectorVars>>

\* readline() returned b"" at the end of the pipe, or the wait timed out and
\* `while self._running` is false
LiveSerialEnds ==
  /\ ret[1].serial = "wait"
  /\ LiveScheduled
  /\ ret[1].pending = 0
  /\ ret[1].exited \/ ~ret[1]._running
  /\ ret' = <<[ret[1] EXCEPT !.serial = "over"]>>
  /\ UNCHANGED <<args, sessionVars, detectorVars>>

\* --- run_monitored
\* capture.stop(); task.cancel() for both tasks (CancelledError at their
\* await); main is at its first `await task`
LiveCleanup(t) ==
  [t EXCEPT !.main = "join", !._running = FALSE,
            !.cpu = "over", !.serial = "over"]

\* back from sleep(0.1) with a reason to leave the loop: _should_stop
\* (terminate, await process.wait()), exit_task.done() or the timeout
LiveMainWake ==
  /\ ret[1].main = "sleep"
  /\ LiveScheduled
  /\ ret[1]._should_stop \/ ret[1].exited \/ ret[1].elapsed
  /\ ret' = <<IF ret[1]._should_stop /\ ~ret[1].exited
              THEN [ret[1] EXCEPT !.main = "terminating"]
              ELSE LiveCleanup(ret[1])>>
  /\ UNCHANGED <<args, sessionVars, detectorVars>>

\* process.wait() returned: break, cleanup
LiveMainWaited ==
  /\ ret[1].main = "terminating"
  /\ LiveScheduled
  /\ ret[1].exited
  /\ ret' = <<LiveCleanup(ret[1])>>
  /\ UNCHANGED <<args, sessionVars, detectorVars>>

\* both tasks awaited: _save_logs, return MonitorResult
LiveReturn ==
  /\ ret[1].main = "join"
  /\ ret' = <<[ret[1] EXCEPT !.main = "returned"]>>
  /\ UNCHANGED <<args, sessionVars, detectorVars>>

NextLive ==
  \/ LiveEmuWriteCpu \/ LiveEmuWriteSerial \/ LiveEmuExit \/ LiveKilled
  \/ LiveTimeoutElapses
  \/ LiveCpuWake \/ LiveCpuReadLine \/ LiveCpuReadNothing
  \/ LiveSerialReadLine \/ LiveSerialEnds
  \/ LiveMainWake \/ LiveMainWaited \/ LiveReturn

\* The event loop runs every coroutine that is ready, in turn, each time the
\* running one awaits: a step that is possible again and again is taken
\* (strong fairness for the steps that wait for the loop, weak fairness for
\* the steps of the coroutine that holds it); a terminated emulator ends;
\* nothing is assumed about when the emulator writes.
LiveFairness ==
  /\ SF_vars(LiveCpuWake) /\ WF_vars(LiveCpuReadLine)
  /\ WF_vars(LiveCpuReadNothing)
  /\ SF_vars(LiveSerialReadLine) /\ SF_vars(LiveSerialEnds)
  /\ SF_vars(LiveMainWake) /\ SF_vars(LiveMainWaited) /\ SF_vars(LiveReturn)
  /\ WF_vars(LiveKilled)

SpecLive == InitLive /\ [][NextLive]_vars /\ LiveFairness

\* =============================== tui/app.py: AnvilApp._run_exclusive
\* Button and key events each call _run_exclusive in a coroutine of their
\* own. args[1] is the set of events; ret[1] is the application:
\*   pc[e]      "idle" (not pressed yet), "dropped" (returned without
\*              running), "lock_wait" (suspended in `async with
\*              self._busy_lock`), "action" (in `await coro_func()`),
\*              "finally_sleep" (in `await asyncio.sleep(0.5)` of the finally
\*              block), "done", "cancelled" (left by CancelledError)
\*   how[e]     how the action of e ended
\*   _is_busy   the busy flag
\*   locked     _busy_lock is held
\*   cooldown   time.time() - self._last_action_time < self._action_cooldown
MaxEvents == 3
Events == 1..MaxEvents

\* AnvilApp._can_start_action
can_start_action(app) == IF app.cooldown THEN FALSE ELSE ~app._is_busy

InitTui ==
  /\ SessionIdle
  /\ last_rip = None /\ last_regs = [CR2 |-> None, RSP |-> None]
  /\ detected = Nothing /\ fed = <<>>
  /\ args = <<Events>>
  /\ ret = <<[pc |-> [e \in Events |-> "idle"],
              how |-> [e \in Events |-> "none"],
              _is_busy |-> FALSE, locked |-> FALSE, cooldown |-> FALSE]>>

\* an event's handler calls _run_exclusive, up to its first suspension:
\* _can_start_action; `async with self._busy_lock` (a free asyncio.Lock is
\* taken without suspending); `if self._is_busy: return`; the flag, the time
\* stamp, clear_logs, set_focus; await coro_func()
TuiRunExclusive(e) ==
  LET app == ret[1]
  IN /\ app.pc[e] = "idle"
     /\ ret' = <<IF ~can_start_action(app)
                 THEN [app EXCEPT !.pc[e] = "dropped"]
                 ELSE IF app.locked
                 THEN [app EXCEPT !.pc[e] = "lock_wait"]
                 ELSE IF app._is_busy
                 THEN [app EXCEPT !.pc[e] = "dropped"]
                 ELSE [app EXCEPT !.pc[e] = "action", !.locked = TRUE,
                                  !._is_busy = TRUE, !.cooldown = TRUE]>>
     /\ UNCHANGED <<args, sessionVars, detectorVars>>

\* coro_func() is over: it returned, it raised (log_error), or the task was
\* cancelled in it (`except asyncio.CancelledError: pass`); the finally block
\* starts with await asyncio.sleep(0.5)
TuiActionEnds(e) ==
  /\ ret[1].pc[e] = "action"
  /\ \E h \in {"returned", "raised", "cancelled"} :
       ret' = <<[ret[1] EXCEPT !.pc[e] = "finally_sleep", !.how[e] = h]>>
  /\ UNCHANGED <<args, sessionVars, detectorVars>>

\* the sleep of the finally block is over: the flag is cleared, the time
\* stamp set, the lock released
TuiFinallyDone(e) ==
  /\ ret[1].pc[e] = "finally_sleep"
  /\ ret' = <<[ret[1] EXCEPT !.pc[e] = "done", !._is_busy = FALSE,
                             !.cooldown = TRUE, !.locked = FALSE]>>
  /\ UNCHANGED <<args, sessionVars, detectorVars>>

\* the task is cancelled while it is in the sleep of the finally block:
\* CancelledError leaves the block at the await, `async with` releases the
\* lock
TuiCancelledInFinally(e) ==
  /\ ret[1].pc[e] = "finally_sleep"
  /\ ret' = <<[ret[1] EXCEPT !.pc[e] = "cancelled", !.locked = FALSE]>>
  /\ UNCHANGED <<args, sessionVars, detectorVars>>

\* self._action_cooldown seconds have passed since _last_action_time
TuiCooldownOver ==
  /\ ret[1].cooldown
  /\ ret' = <<[ret[1] EXCEPT !.cooldown = FALSE]>>
  /\ UNCHANGED <<args, sessionVars, detectorVars>>

NextTui ==
  \/ \E e \in args[1] : TuiRunExclusive(e)
  \/ \E e \in args[1] : TuiActionEnds(e)
  \/ \E e \in args[1] : TuiFinallyDone(e)
  \/ \E e \in args[1] : TuiCancelledInFinally(e)
  \/ TuiCooldownOver

SpecTui == InitTui /\ [][NextTui]_vars

\* ================================================================ claims
IsSerial(e) == e.source = "serial"
IsCpuLog(e) == e.source = "cpu_log"
FromSerial(es) == SelectSeq(es, IsSerial)
FromCpuLog(es) == SelectSeq(es, IsCpuLog)
Occurrences(es, e) == Cardinality({i \in 1..Len(es) : es[i] = e})
Registered == {callbacks[i] : i \in 1..Len(callbacks)}
\* the last min(k, Len(es)) elements of es, in order
MostRecent(es, k) == SubSeq(es, Len(es) - Min(k, Len(es)) + 1, Len(es))
QueryArgs == 0..(BufCap + 2)
NoObserverRaised ==
  \A o \in Registered : delivered[o] = merged_timeline

\* C1: every observer registered before the capture loops start is invoked
\* exactly once with every LogEntry the loops emit, whatever the other
\* observers do when they are invoked.
C1_EveryObserverExactlyOnce ==
  \A o \in Registered : \A i \in 1..Len(merged_timeline) :
    Occurrences(delivered[o], merged_timeline[i]) = 1

\* C2: for each source, the line_number values of the entries its loop emits
\* are exactly 1, 2, 3, ... in emission order, blank input lines included.
C2_LineNumbersGapless ==
  /\ \A i \in 1..Len(FromSerial(merged_timeline)) :
       FromSerial(merged_timeline)[i].line_number = i
  /\ \A i \in 1..Len(FromCpuLog(merged_timeline)) :
       FromCpuLog(merged_timeline)[i].line_number = i

\* C3: within one source, every observer receives the entries in the order
\* the lines arrived on that source, each with a sequence number strictly
\* greater than that of every earlier entry of the source, for every
\* interleaving with the other producer.
PerSourceOrdered(es) ==
  \A i \in 1..Len(es) : \A j \in 1..Len(es) :
    i < j => /\ es[i].line.id < es[j].line.id
             /\ es[i].line_number < es[j].line_number
C4_RecentQueries ==
  /\ Len(serial_buffer) <= BufCap
  /\ Len(cpu_log_buffer) <= BufCap
  /\ \A k \in QueryArgs :
       /\ get_context(k) = MostRecent(merged_timeline, k)
       /\ get_serial_context(k) = MostRecent(serial_buffer, k)
       /\ get_cpu_log_context(k) = MostRecent(cpu_log_buffer, k)

\* C5: the merged timeline is bounded: after any number of emitted entries it
\* holds at most the capacity fixed at construction.
C5_MergedTimelineBounded == Len(merged_timeline) <= BufCap

\* C6: once stop() has been called, a capture loop that reaches its loop
\* condition exits there, in every interleaving of stop() with the two
\* tasks, also when stop() comes before a task's first step.
C6_StopLevelTriggered ==
  [][stop_called =>
       /\ (serial_pc' # serial_pc \/ serial_line_count' # serial_line_count)
            => serial_pc' \in Finished
       /\ (cpu_pc' # cpu_pc \/ cpu_log_line_count' # cpu_log_line_count)
            => cpu_pc' \in Finished]_vars

\* C7: a failure raised inside one capture producer ends only that producer:
\* it is reported through the logger and the session's MonitorResult is not
\* turned into a crashed result by it.
C7_ProducerFailureIsolated ==
  (/\ mon_pc = "done"
   /\ serial_pc = "broke" \/ cpu_pc = "failed"
   /\ NoObserverRaised
   /\ detections = 0)
  => /\ ~result[1].crashed
     /\ "monitor_error" \in log

\* C8: every detection made by the monitor's entry observer gives exactly one
\* call of the on_exception handler and exactly one entry of all_crashes,
\* also for several detections before the stop request takes effect and with
\* extra observers registered on the capture.
C8_OncePerDetection ==
  /\ has_handler => handler_calls = detections
  /\ Len(all_crashes) = detections

\* C8 witness: two detections in a session that stops on exception, behind an
\* extra observer.
C8_Witness ==
  /\ detections = 2
  /\ stop_on_exception
  /\ has_handler
  /\ callbacks = <<"extra", "on_entry">>

\* C9: when the session ends by timeout, stop request or emulator exit and no
\* captured line carried an exception marker, the MonitorResult has
\* crashed = false, no crash_info, and total_lines = the lines the serial
\* stream delivered + the lines appended to the CPU log during the session.
\* Stated for the sessions in which no producer and no observer failed, the
\* log still holds every line appended to it, and the capture had read the
\* log to its end when the session ended.
C9_CleanRunResult ==
  (/\ mon_pc = "done"
   /\ serial_pc \notin {"none", "broke"}
   /\ cpu_pc \notin {"none", "failed"}
   /\ NoObserverRaised
   /\ cpu_file_exists /\ Len(cpu_file) = cpu_written
   /\ cpu_pos = Len(cpu_file)
   /\ \A i \in 1..Len(serial_pipe) : serial_pipe[i].kind # "exc"
   /\ \A i \in 1..Len(cpu_file) : cpu_file[i].kind # "exc"
   /\ \A i \in 1..Len(merged_timeline) : merged_timeline[i].line.kind # "exc")
  => /\ ~result[1].crashed
     /\ result[1].crash_info = <<>>
     /\ result[1].total_lines = serial_line_count + cpu_written

\* C10: after the CPU log was truncated while the capture tails it, whenever
\* the tail loop finds nothing more to read, every non-blank line of the file
\* (all written after the truncation) has been emitted as a LogEntry.
C10_TruncationRecovered ==
  [][(tail_truncated /\ cpu_pc = "tail_active" /\ cpu_pc' = "tail_sleep")
       => \A i \in 1..Len(cpu_file') :
            cpu_file'[i].kind # "blank"
              => \E j \in 1..Len(merged_timeline') :
                   /\ merged_timeline'[j].source = "cpu_log"
                   /\ merged_timeline'[j].line = cpu_file'[i]]_vars

\* ------------------------------------------------------------------ C11
\* Table A of the specification: <<vector, name, code>>
TableA ==
  << <<0, "Divide Error", "#DE">>, <<13, "General Protection", "#GP">>,
     <<1, "Debug", "#DB">>, <<14, "Page Fault", "#PF">>,
     <<2, "NMI", "NMI">>, <<16, "x87 FPU Error", "#MF">>,
     <<3, "Breakpoint", "#BP">>, <<17, "Alignment Check", "#AC">>,
     <<4, "Overflow", "#OF">>, <<18, "Machine Check", "#MC">>,
     <<6, "Invalid Opcode", "#UD">>, <<19, "SIMD Exception", "#XM">>,
     <<8, "Double Fault", "#DF">>, <<20, "Virtualization", "#VE">>,
     <<10, "Invalid TSS", "#TS">>, <<11, "Segment Not Present", "#NP">>,
     <<12, "Stack Fault", "#SS">>, <<5, "Bound Range", "#BR">>,
     <<7, "Device N/A", "#NM">> >>

\* Table A with the full name for vector 0x07
TableA_FullNames ==
  [i \in 1..Len(TableA) |->
     IF TableA[i][1] = 7 THEN <<7, "Device Not Available", "#NM">> ELSE TableA[i]]

\* the number a sequence of digits writes in base b
RECURSIVE DigitsValue(_, _)
DigitsValue(ds, b) ==
  IF ds = <<>> THEN 0
  ELSE b * DigitsValue(SubSeq(ds, 1, Len(ds) - 1), b) + ds[Len(ds)]

\* "Exception <vec>" in decimal, "#0x<VEC>" in hexadecimal of two digits or more
UnknownFormat(e) ==
  /\ Len(e.name) = 2 /\ e.name[1] = "Exception "
  /\ \A i \in 1..Len(e.name[2]) : e.name[2][i] \in 0..9
  /\ DigitsValue(e.name[2], 10) = e.vector
  /\ Len(e.code) = 2 /\ e.code[1] = "#0x"
  /\ Len(e.code[2]) >= 2
  /\ \A i \in 1..Len(e.code[2]) : e.code[2][i] \in 0..15
  /\ DigitsValue(e.code[2], 16) = e.vector

NamedBy(table, e) ==
  LET hit == Lookup(table, e.vector)
  IN /\ IF hit # Nothing
        THEN e.name = <<hit[1][2]>> /\ e.code = <<hit[1][3]>>
        ELSE UnknownFormat(e)
     /\ (hit # Nothing \/ e.name[1] = "Exception ")

\* C11 as stated: an emitted exception with a Table A vector has exactly Table
\* A's name and code, any other is named "Exception <vec>" with code "#0x<VEC>"
C11_NamedByTableA ==
  detected # Nothing => NamedBy(TableA, detected[1])

\* C11, amended: the same with vector 0x07 named "Device Not Available"
C11_NamedByFullNames ==
  detected # Nothing => NamedBy(TableA_FullNames, detected[1])

\* an exception of vector 0x07 has been emitted
C11_Witness ==
  /\ detected # Nothing
  /\ detected[1].vector = 7
  /\ detected[1].name = <<"Device Not Available">>

\* ------------------------------------------------------------------ C12
\* C12: every CpuException the detector emits has a vector in 0..31
C12_VectorInRange ==
  detected # Nothing => detected[1].vector \in 0..31

\* ------------------------------------------------------------------ C13
\* the value of the last assignment to a register among lines, None without one
MostRecentAssign(reg, lines) ==
  LET assigning == {i \in 1..Len(lines) : lines[i][reg] # None}
  IN IF assigning = {} THEN None
     ELSE lines[CHOOSE i \in assigning : \A j \in assigning : j <= i][reg]

Ingested(before, assigned) == IF assigned # None THEN assigned ELSE before

\* C14: a call that feeds a line (detect, process_line, or parse_line's detect
\* followed by process_line) leaves the state that ingesting the line once
\* leaves; a line without assignments leaves it unchanged; and what detect
\* returns is built from the line and the state after ingestion
C14_DetectIsIngestThenPureDetect ==
  [][Len(fed') > Len(fed) =>
       LET line == fed'[Len(fed')]
       IN /\ \A i \in (Len(fed) + 1)..Len(fed') : fed'[i] = line
          /\ last_rip' = Ingested(last_rip, line.rip)
          /\ last_regs'.CR2 = Ingested(last_regs.CR2, line.cr2)
          /\ last_regs'.RSP = Ingested(last_regs.RSP, line.rsp)
          /\ (line.rip = None /\ line.cr2 = None /\ line.rsp = None
                => last_rip' = last_rip /\ last_regs' = last_regs)
          /\ (detected' # Nothing =>
                /\ detected'[1].raw_line = line
                /\ detected'[1].rip = last_rip'
                /\ detected'[1].cr2 = last_regs'.CR2
                /\ detected'[1].rsp = last_regs'.RSP)]_vars

\* parse_line has fed a line that assigns registers to detect and then again
\* to process_line
C14_Witness ==
  /\ Len(fed) = 2 /\ fed[1] = fed[2]
  /\ fed[2].rip = "r2" /\ fed[2].cr2 = "c1"
  /\ detected # Nothing /\ detected[1].rip = "r2"
  /\ last_rip = "r2" /\ last_regs.CR2 = "c1"

\* ------------------------------------------------------------------ C15
\* C15: the severity of a Diagnosis is at least the severity of each of its
\* matching patterns, and critical when no pattern matched
C15_SeverityAtLeastMax ==
  ret # <<>> =>
    LET d == ret[1]
    IN /\ \A i \in 1..Len(d.matching_patterns) :
            SEVERITY_ORDER[d.severity] >= SEVERITY_ORDER[d.matching_patterns[i].severity]
       /\ (d.matching_patterns = <<>> => d.severity = "critical")

\* a Diagnosis of severity warning, an info pattern and a warning pattern
\* having matched
C15_Witness ==
  /\ ret # <<>>
  /\ args[1].context = {"timer_storm", "unimplemented_msr"}
  /\ Len(ret[1].matching_patterns) = 2
  /\ ret[1].severity = "warning"

\* ------------------------------------------------------------------ C16
\* the place of a pattern in the registry
RegistryIndex(name) ==
  CHOOSE i \in 1..Len(KNOWN_PATTERNS) : KNOWN_PATTERNS[i].name = name

\* C16: the matching patterns are those of the context, in registry
\* declaration order, and when there is one the probable cause starts with the
\* diagnosis of the matching pattern declared first
C16_FirstDeclaredPatternGivesCause ==
  ret # <<>> =>
    LET d == ret[1]
        ps == d.matching_patterns
    IN /\ {ps[i].name : i \in 1..Len(ps)} = args[1].context
       /\ \A i, j \in 1..Len(ps) :
            i < j => RegistryIndex(ps[i].name) < RegistryIndex(ps[j].name)
       /\ (args[1].context # {} =>
             /\ d.probable_cause[1] = "diagnosis"
             /\ \A n \in args[1].context :
                  RegistryIndex(d.probable_cause[2]) <= RegistryIndex(n))

\* page_fault and null_pointer both match and the cause is page_fault's
C16_Witness ==
  /\ ret # <<>>
  /\ args[1].context = {"null_pointer", "page_fault"}
  /\ ret[1].probable_cause[2] = "page_fault"

SamePath(p, q) == Lower[p.drive] = Lower[q.drive] /\ p.parts = q.parts

\* C18: from_wsl(to_wsl(p)) equals p for every absolute native path p with a
\* drive-letter prefix
C18_RoundTrip ==
  (ret # <<>> /\ ret[1].back # Nothing) => SamePath(ret[1].back[1], args[1])

\* ------------------------------------------------------------------ C19
\* C19: when addr2line gives no usable result, find_symbol returns a symbol
\* nm lists with the greatest address that is <= the target, and None when the
\* target is below every symbol nm lists
C19_GreatestSymbolAtOrBelow ==
  (ret # <<>> /\ ~args[1].addr2line /\ args[1].nm_success) =>
    LET listing == args[1].listing
        atOrBelow == {i \in 1..Len(listing) : listing[i] <= args[1].address}
    IN IF atOrBelow = {}
       THEN ret[1] = Nothing
       ELSE /\ ret[1] # Nothing
            /\ \E i \in atOrBelow :
                 /\ ret[1][1] = NmSymbol(listing, i)
                 /\ \A j \in atOrBelow : listing[j] <= listing[i]

\* ------------------------------------------------------------------ C20
\* C20: for every existing file validate_kernel and validate_bootloader raise
\* nothing, and the result is valid exactly when its list of issues is empty
C20_ValidatorsNeverRaise ==
  (ret # <<>> /\ args[1].exists) =>
    /\ ret[2].raised = None
    /\ ret[2].valid <=> ret[2].issues = <<>>

\* ------------------------------------------------------------------ C21
\* C21: after a session that ended with its logs saved, serial.log holds the
\* lines of the last min(SaveLines, n) entries the serial source emitted, in
\* capture order, and cpu.log those of the CPU log
C21_SavedLogsHoldLastEntries ==
  (mon_pc = "done" /\ "saving_logs" \in log) =>
    /\ saved_logs # <<>>
    /\ saved_logs[1].serial
         = LinesOf(MostRecent(FromSerial(merged_timeline), SaveLines))
    /\ saved_logs[1].cpu
         = LinesOf(MostRecent(FromCpuLog(merged_timeline), SaveLines))

\* ------------------------------------------------------------------ C22
\* C22: a Disassembly is anchored at the requested address, lists the
\* (address, "", mnemonic) tuples of the window in ascending order, and names
\* the function whose body contains the anchor
C22_SymbolContainsAnchor ==
  (ret # <<>> /\ ret[1] # Nothing) =>
    LET d == ret[1][1]
    IN /\ d.address = args[1].address
       /\ \A i \in 1..Len(d.instructions) :
            /\ d.instructions[i][2] = ""
            /\ d.instructions[i][3] = <<"asm", d.instructions[i][1]>>
            /\ i > 1 => d.instructions[i - 1][1] < d.instructions[i][1]
       /\ \E i \in 1..Len(d.instructions) : d.instructions[i][1] = args[1].address
       /\ d.symbol # Nothing
       /\ d.symbol[1].name[1] = FunctionOf(args[1].starts, args[1].address)

\* ------------------------------------------------------------------ C23
\* C23: a crash detected on a line that marks a vector of Table A has the name
\* and the code of that vector, with or without "check_exception" on the line
C23_CrashNamedByLineVector ==
  (ret # <<>> /\ ret[1] # Nothing /\ args[1].v # <<>>) =>
    LET row == Lookup(TableA, HexValue(args[1].v))
    IN row # Nothing =>
         /\ ret[1][1].exception_type = row[1][2]
         /\ ret[1][1].exception_code = row[1][3]

\* the newline-terminated lines of a text, in order, without their newline
RECURSIVE CompleteLines(_)
CompleteLines(text) ==
  LET nl == {i \in 1..Len(text) : text[i] = NL}
  IN IF nl = {} THEN <<>>
     ELSE LET k == CHOOSE i \in nl : \A j \in nl : i <= j
          IN <<SubSeq(text, 1, k - 1)>>
               \o CompleteLines(SubSeq(text, k + 1, Len(text)))
NonBlank(ls) == SelectSeq(ls, LAMBDA l : l # <<>>)

\* C24: every entry of the CPU-log producer is one complete
\* newline-delimited line of the file: the lines emitted so far are exactly
\* the non-blank newline-terminated lines of what the emulator wrote after
\* the producer's starting offset, never a piece of a line whose newline had
\* not been written when it was read.
C24_EntriesAreCompleteLines ==
  LET t == ret[1]
      entries == [i \in 1..Len(t.cpu_log_buffer) |-> t.cpu_log_buffer[i].line]
  IN entries = NonBlank(CompleteLines(SubSeq(args[1], t.seek + 1, t.pos)))

\* C25: a CPU-log producer that found no file at its start keeps polling
\* without failing while the file is absent; when it leaves the wait for the
\* tail loop, every line appended since the file was created is still ahead
\* of its read offset; and once stop() was called while it waits, its next
\* step ends the task with no file opened and no entry emitted.
C25_WaitsForFileThenCapturesAll ==
  [][cpu_pc = "wait_file" =>
       /\ ~cpu_file_exists => cpu_pc' \in {"wait_file", "done", "cancelled"}
       /\ cpu_pc' = "tail_sleep" => cpu_pos' = 0
       /\ ~running =>
            /\ cpu_pc' \in {"wait_file", "done", "cancelled"}
            /\ UNCHANGED <<cpu_log_buffer, cpu_log_line_count, cpu_pos>>]_vars

\* C26: once run_monitored has returned, no observer is registered on the
\* capture any more (so a later session on the same capture cannot deliver
\* an entry to the same handler twice).
C26_ObserversDetachedAtEnd ==
  mon_pc = "done" => callbacks = <<>>

\* C27: the observers invoked for an entry are exactly those registered when
\* the entry's dispatch began, in their order: what a callback registers
\* during the dispatch takes effect from the next entry on.
C27_DispatchUsesListAtBegin ==
  [][Len(ret'[1].merged_timeline) > Len(ret[1].merged_timeline) =>
       ret'[1].calls = ret[1]._callbacks]_vars

\* C28: once the emulator has exited, the timeout has elapsed or a detected
\* crash has set the stop request, run_monitored eventually returns its
\* MonitorResult, however fast the emulator writes.
C28_RunMonitoredTerminates ==
  (ret[1].exited \/ ret[1].elapsed \/ ret[1]._should_stop)
    ~> (ret[1].main = "returned")

\* C29: in every MonitorResult that run_monitored returns, crashed is true
\* exactly when an exception was detected during the session; crash_info is
\* then present and is the last element of all_crashes; success and crashed
\* are never both true.
C29_CrashedIffDetected ==
  result # <<>> =>
    LET r == result[1]
    IN /\ r.crashed <=> detections > 0
       /\ r.crashed =>
            /\ r.crash_info # <<>>
            /\ r.all_crashes # <<>>
            /\ r.crash_info[1] = r.all_crashes[Len(r.all_crashes)]
       /\ ~(r.success /\ r.crashed)

\* C30: at most one action coroutine executes at a time; no request waits
\* behind a running action (it is dropped, not queued); and the busy flag is
\* set only while an invocation of _run_exclusive is still on its way to
\* clear it, however its action ended.
C30_ExclusiveAndFlagCleared ==
  LET app == ret[1]
  IN /\ Cardinality({e \in args[1] : app.pc[e] = "action"}) <= 1
     /\ \A e \in args[1] : app.pc[e] # "lock_wait"
     /\ app._is_busy =>
          \E e \in args[1] : app.pc[e] \in {"action", "finally_sleep"}

====
